---- MODULE Spec2Model ----
(***************************************************************************)
(* Post-processing pipeline of a minigroup class (dispatcher):             *)
(* handle_upload -> handle_adjust -> handle_transcoding_completion,        *)
(* with the database tables `class` and `recording`, the calls issued to   *)
(* the event service, the transcoding service and the publisher, and the   *)
(* pure helpers build_adjust_segments and build_stream.                    *)
(*                                                                         *)
(* Every handler invocation is a process of its own: run[i] is a running   *)
(* invocation, with its position (pc), its open transaction (txn), its     *)
(* local variables (loc), the external calls it has issued (calls) and     *)
(* what it returned (ret).  Times are milliseconds; the values of the      *)
(* repository's tests are used divided by 1000 so that the nanosecond      *)
(* timestamps of the pin events fit TLC's integers.                        *)
(***************************************************************************)
EXTENDS Integers, Sequences, FiniteSets, TLC

\* ------------------------------------------------------------------ bounds
MaxInv == 3        \* handler invocations (incoming triggers) in one behaviour
MaxConc == 2       \* handler invocations running at the same time
MaxEvents == 3     \* pin events in one list given to build_stream
MaxRecs == 3       \* recordings fetched by one handle_adjust (TaskSpec)
MaxTracks == 3     \* tracks in one list given to build_adjust_segments (AdjustSegmentsSpec)
MaxReq == 2        \* API requests in one behaviour
MaxReqConc == 2    \* API requests in progress at the same time

\* --------------------------------------------------------------- constants
NS_IN_MS == 1000000
PIN_EVENT_TYPE == "pin"
PREROLL_OFFSET == 4018

NULL == "NULL"
Now == "now"
None == <<>>
Some(x) == <<x>>

\* std::ops::Bound values of a segment (Bound<i64>, Bound<i64>)
Included(v) == <<"Included", v>>
Excluded(v) == <<"Excluded", v>>
Seg(start, stop) == <<Included(start), Excluded(stop)>>

\* Vec::first / Vec::last as Option
First(s) == IF Len(s) = 0 THEN None ELSE Some(s[1])
Last(s) == IF Len(s) = 0 THEN None ELSE Some(s[Len(s)])

\* ------------------------------------------------------------------ inputs
Agent1 == [label |-> "web", account_id |-> "user1"]
Agent2 == [label |-> "web", account_id |-> "user2"]
Agents == {Agent1, Agent2}
AsAccountId(agent) == agent.account_id

Segments1 == <<Seg(0, 1500), Seg(1800, 3000)>>
Segments2 == <<Seg(0, 2700)>>

Rtc1 == [id |-> "rtc1", uri |-> "s3://rtc1.webm", started_at |-> 0,
         segments |-> Segments1, created_by |-> Agent1]
Rtc2 == [id |-> "rtc2", uri |-> "s3://rtc2.webm", started_at |-> 600,
         segments |-> Segments2, created_by |-> Agent2]
Rtc3 == [id |-> "rtc3", uri |-> "s3://rtc3.webm", started_at |-> 300,
         segments |-> <<>>, created_by |-> Agent1]
\* a track of the first participant that ended early
Rtc4 == [id |-> "rtc4", uri |-> "s3://rtc4.webm", started_at |-> 0,
         segments |-> <<Seg(0, 1400)>>, created_by |-> Agent1]

\* a track of the second participant whose first segment starts late
Rtc5 == [id |-> "rtc5", uri |-> "s3://rtc5.webm", started_at |-> 900,
         segments |-> <<Seg(300, 1200), Seg(1500, 3300)>>, created_by |-> Agent2]

\* the track lists of an upload notice
UploadInputs == {<<>>, <<Rtc1, Rtc2>>, <<Rtc2, Rtc3>>, <<Rtc3>>}

\* ------------------------------------------------- build_adjust_segments
\* a plausible slip: the bounds of the last track with segments taken, no
\* comparison with those found before
RECURSIVE AdjustSegmentsLoopLastWins(_, _, _)
AdjustSegmentsLoopLastWins(rtcs, k, acc) ==
    IF k > Len(rtcs) THEN acc
    ELSE LET segments == rtcs[k].segments
             first == First(segments)
             last == Last(segments)
             min1 == IF first # None /\ first[1][1][1] = "Included"
                     THEN Some(first[1][1][2])
                     ELSE acc.maybe_min_start
             max1 == IF last # None /\ last[1][2][1] = "Excluded"
                     THEN Some(last[1][2][2])
                     ELSE acc.maybe_max_stop
         IN  AdjustSegmentsLoopLastWins(rtcs, k + 1,
                 [maybe_min_start |-> min1, maybe_max_stop |-> max1])

RECURSIVE AdjustSegmentsLoop(_, _, _)
AdjustSegmentsLoop(rtcs, k, acc) ==
    IF k > Len(rtcs) THEN acc
    ELSE LET segments == rtcs[k].segments
             first == First(segments)
             last == Last(segments)
             min1 == IF first # None /\ first[1][1][1] = "Included"
                     THEN IF acc.maybe_min_start # None
                          THEN IF first[1][1][2] < acc.maybe_min_start[1]
                               THEN Some(first[1][1][2])
                               ELSE acc.maybe_min_start
                          ELSE Some(first[1][1][2])
                     ELSE acc.maybe_min_start
             max1 == IF last # None /\ last[1][2][1] = "Excluded"
                     THEN IF acc.maybe_max_stop # None
                          THEN IF last[1][2][2] > acc.maybe_max_stop[1]
                               THEN Some(last[1][2][2])
                               ELSE acc.maybe_max_stop
                          ELSE Some(last[1][2][2])
                     ELSE acc.maybe_max_stop
         IN  AdjustSegmentsLoop(rtcs, k + 1,
                 [maybe_min_start |-> min1, maybe_max_stop |-> max1])

\* a plausible slip: no segments found taken for an empty envelope
build_adjust_segments_EmptyOk(rtcs) ==
    LET acc == AdjustSegmentsLoop(rtcs, 1,
                   [maybe_min_start |-> None, maybe_max_stop |-> None])
    IN  IF acc.maybe_min_start # None /\ acc.maybe_max_stop # None
        THEN [ok |-> TRUE,
              val |-> <<Seg(acc.maybe_min_start[1], acc.maybe_max_stop[1])>>]
        ELSE [ok |-> TRUE, val |-> <<>>]

\* Result<Segments>: [ok |-> TRUE, val |-> segments] or [ok |-> FALSE]
build_adjust_segments(rtcs) ==
    LET acc == AdjustSegmentsLoop(rtcs, 1,
                   [maybe_min_start |-> None, maybe_max_stop |-> None])
    IN  IF acc.maybe_min_start # None /\ acc.maybe_max_stop # None
        THEN [ok |-> TRUE,
              val |-> <<Seg(acc.maybe_min_start[1], acc.maybe_max_stop[1])>>]
        ELSE [ok |-> FALSE, val |-> <<>>]

\* rtcs.iter().map(|rtc| rtc.started_at).min()
RECURSIVE MinStartedAt(_)
MinStartedAt(rtcs) ==
    IF Len(rtcs) = 0 THEN None
    ELSE LET rest == MinStartedAt(Tail(rtcs))
         IN  IF rest = None \/ Head(rtcs).started_at <= rest[1]
             THEN Some(Head(rtcs).started_at)
             ELSE rest

\* ------------------------------------------------------------ build_stream
\* i64 division: the quotient is truncated towards zero
RustDiv(a, b) == IF a >= 0 THEN a \div b ELSE -((-a) \div b)

\* the loop over the pin events; st = [pin_segments, pin_start]
RECURSIVE PinPassOverwrite(_, _, _, _, _)
PinPassOverwrite(pin_events, k, created_by, event_room_offset, st) ==
    IF k > Len(pin_events) THEN st
    ELSE LET event == pin_events[k]
             occurred_at == (event.occurred_at \div NS_IN_MS) - event_room_offset
         IN  IF event.data.agent_id = created_by
             THEN PinPassOverwrite(pin_events, k + 1, created_by, event_room_offset,
                      [st EXCEPT !.pin_start = Some(occurred_at)])
             ELSE IF st.pin_start # None
             THEN PinPassOverwrite(pin_events, k + 1, created_by, event_room_offset,
                      [pin_segments |-> Append(st.pin_segments,
                                           <<Included(st.pin_start[1]), Excluded(occurred_at)>>),
                       pin_start |-> None])
             ELSE PinPassOverwrite(pin_events, k + 1, created_by, event_room_offset, st)

\* a plausible slip: the pin not cleared when its segment is emitted
RECURSIVE PinPassKeepOpen(_, _, _, _, _)
PinPassKeepOpen(pin_events, k, created_by, event_room_offset, st) ==
    IF k > Len(pin_events) THEN st
    ELSE LET event == pin_events[k]
             occurred_at == RustDiv(event.occurred_at, NS_IN_MS) - event_room_offset
         IN  IF event.data.agent_id = created_by /\ st.pin_start = None
             THEN PinPassKeepOpen(pin_events, k + 1, created_by, event_room_offset,
                      [st EXCEPT !.pin_start = Some(occurred_at)])
             ELSE IF st.pin_start # None
             THEN PinPassKeepOpen(pin_events, k + 1, created_by, event_room_offset,
                      [st EXCEPT !.pin_segments = Append(st.pin_segments,
                                     <<Included(st.pin_start[1]), Excluded(occurred_at)>>)])
             ELSE PinPassKeepOpen(pin_events, k + 1, created_by, event_room_offset, st)

\* a plausible slip: the offset subtracted from the nanoseconds, then the division
RECURSIVE PinPassSubtractFirst(_, _, _, _, _)
PinPassSubtractFirst(pin_events, k, created_by, event_room_offset, st) ==
    IF k > Len(pin_events) THEN st
    ELSE LET event == pin_events[k]
             occurred_at == RustDiv(event.occurred_at - event_room_offset * NS_IN_MS,
                                    NS_IN_MS)
         IN  IF event.data.agent_id = created_by /\ st.pin_start = None
             THEN PinPassSubtractFirst(pin_events, k + 1, created_by, event_room_offset,
                      [st EXCEPT !.pin_start = Some(occurred_at)])
             ELSE IF st.pin_start # None
             THEN PinPassSubtractFirst(pin_events, k + 1, created_by, event_room_offset,
                      [pin_segments |-> Append(st.pin_segments,
                                           <<Included(st.pin_start[1]), Excluded(occurred_at)>>),
                       pin_start |-> None])
             ELSE PinPassSubtractFirst(pin_events, k + 1, created_by, event_room_offset, st)

RECURSIVE PinPass(_, _, _, _, _)
PinPass(pin_events, k, created_by, event_room_offset, st) ==
    IF k > Len(pin_events) THEN st
    ELSE LET event == pin_events[k]
             occurred_at == RustDiv(event.occurred_at, NS_IN_MS) - event_room_offset
         IN  IF event.data.agent_id = created_by /\ st.pin_start = None
             THEN PinPass(pin_events, k + 1, created_by, event_room_offset,
                      [st EXCEPT !.pin_start = Some(occurred_at)])
             ELSE IF st.pin_start # None
             THEN PinPass(pin_events, k + 1, created_by, event_room_offset,
                      [pin_segments |-> Append(st.pin_segments,
                                           <<Included(st.pin_start[1]), Excluded(occurred_at)>>),
                       pin_start |-> None])
             ELSE PinPass(pin_events, k + 1, created_by, event_room_offset, st)

\* `as u64` of an i64 number of milliseconds: the u64 is wraps * 2^64 + low
AsU64(x) == [wraps |-> IF x >= 0 THEN 0 ELSE 1, low |-> x]

\* a plausible slip: the pin still open at the end is forgotten
build_stream_TrailingPinDropped(recording, pin_events, event_room_offset, recording_offset) ==
    LET st == PinPass(pin_events, 1, recording.created_by, event_room_offset,
                      [pin_segments |-> <<>>, pin_start |-> None])
    IN  [id |-> recording.rtc_id,
         uri |-> recording.stream_uri,
         offset |-> AsU64(recording_offset),
         segments |-> recording.segments,
         pin_segments |-> st.pin_segments]

\* a plausible slip: a recording nobody pinned or unpinned taken as pinned throughout
build_stream_PinnedByDefault(recording, pin_events, event_room_offset, recording_offset) ==
    LET st == PinPass(pin_events, 1, recording.created_by, event_room_offset,
                      [pin_segments |-> <<>>,
                       pin_start |-> IF Len(pin_events) = 0 THEN Some(0) ELSE None])
        last == Last(recording.segments)
        pin_segments ==
            IF st.pin_start # None /\ last # None /\ last[1][2][1] = "Excluded"
            THEN Append(st.pin_segments,
                        <<Included(st.pin_start[1]), Excluded(last[1][2][2])>>)
            ELSE st.pin_segments
    IN  [id |-> recording.rtc_id,
         uri |-> recording.stream_uri,
         offset |-> AsU64(recording_offset),
         segments |-> recording.segments,
         pin_segments |-> pin_segments]

build_stream(recording, pin_events, event_room_offset, recording_offset) ==
    LET st == PinPass(pin_events, 1, recording.created_by, event_room_offset,
                      [pin_segments |-> <<>>, pin_start |-> None])
        last == Last(recording.segments)
        pin_segments ==
            IF st.pin_start # None /\ last # None /\ last[1][2][1] = "Excluded"
            THEN Append(st.pin_segments,
                        <<Included(st.pin_start[1]), Excluded(last[1][2][2])>>)
            ELSE st.pin_segments
    IN  [id |-> recording.rtc_id,
         uri |-> recording.stream_uri,
         offset |-> AsU64(recording_offset),
         segments |-> recording.segments,
         pin_segments |-> pin_segments]

\* --------------------------------------------------- more handler inputs
\* RoomAdjustResult of a room.adjust notice
AdjustResults ==
    {[kind |-> "Error", error |-> "adjust failed"],
     [kind |-> "Success", original_room_id |-> "orig1", modified_room_id |-> "mod1",
      modified_segments |-> <<Seg(0, 3000)>>],
     [kind |-> "Success", original_room_id |-> "orig2", modified_room_id |-> "mod2",
      modified_segments |-> <<Seg(0, 3000)>>]}

\* what read_room may answer: a room with its time range, or a failure
RoomResponses ==
    {[ok |-> TRUE, time |-> <<Included(0), Excluded(3000)>>],
     [ok |-> TRUE, time |-> <<Excluded(0), Excluded(3000)>>],
     [ok |-> TRUE, time |-> <<<<"Unbounded">>, <<"Unbounded">>>>],
     [ok |-> FALSE, time |-> <<>>]}

PinEvent(ns, agent) ==
    [kind |-> PIN_EVENT_TYPE, occurred_at |-> ns, data |-> [agent_id |-> agent]]

\* the pin events of the handle_adjust test, in nanoseconds
TestPinEvents ==
    <<PinEvent(0, Agent1), PinEvent(1200000000, Agent2), PinEvent(1500000000, Agent1)>>

\* what list_events may answer
EventResponses ==
    {[ok |-> TRUE, events |-> <<>>],
     [ok |-> TRUE, events |-> TestPinEvents],
     [ok |-> FALSE, events |-> <<>>]}

\* the duration strings of the notices of the pipeline: the test's, and one
\* that is no number
DurationStrings == {<<"3", "0", "0", "0", ".", "0">>, <<"a", "b", "c">>}

\* 2^64 seconds, the least duration above every u64
TwoTo64Seconds ==
    <<"1", "8", "4", "4", "6", "7", "4", "4", "0", "7", "3", "7", "0", "9", "5", "5",
      "1", "6", "1", "6", ".", "0">>

\* 2.5 - 10^-19 seconds: the nearest f64 is 2.5, whose neighbours are
\* 2.5 - 2^-51 and 2.5 + 2^-51
BelowHalfSeconds ==
    <<"2", ".", "4", "9", "9", "9", "9", "9", "9", "9", "9", "9", "9", "9", "9", "9",
      "9", "9", "9", "9", "9">>

\* the duration strings a transcoder may send besides: above and at a half,
\* negative, not a number, infinite, too large for a u64, and next to a half
FloatStrings ==
    DurationStrings \cup
    {<<"2", ".", "6">>, <<"2", ".", "5">>, <<"-", "2", ".", "6">>, <<"N", "a", "N">>,
     <<"i", "n", "f">>, TwoTo64Seconds, BelowHalfSeconds}

\* TaskCompleteResult of a task.complete notice with one of the durations
CompletionResultsWith(durations) ==
    {[kind |-> "Failure", error |-> "transcoding failed"],
     [kind |-> "Success", template |-> "TranscodeStreamToHls"]}
    \cup {[kind |-> "Success", template |-> "TranscodeMinigroupToHls",
           recording_duration |-> s] : s \in durations}

CompletionResults == CompletionResultsWith(DurationStrings)

\* ----------------------- recording_duration.parse::<f64>()?.round() as u64
\* A string is the sequence of its characters; a u64 is the sequence of its
\* decimal digits, so that values up to u64::MAX can be written.
Digits == {"0", "1", "2", "3", "4", "5", "6", "7", "8", "9"}
DigitVal(c) ==
    CASE c = "0" -> 0 [] c = "1" -> 1 [] c = "2" -> 2 [] c = "3" -> 3 [] c = "4" -> 4
      [] c = "5" -> 5 [] c = "6" -> 6 [] c = "7" -> 7 [] c = "8" -> 8 [] c = "9" -> 9
DigitChar(d) == CHOOSE c \in Digits : DigitVal(c) = d

RECURSIVE Decimal(_)
Decimal(chars) ==
    IF Len(chars) = 0 THEN 0
    ELSE 10 * Decimal(SubSeq(chars, 1, Len(chars) - 1)) + DigitVal(chars[Len(chars)])

Signs == {"+", "-"}

\* the letters of the grammar, which are matched without regard to case
Lower(c) ==
    CASE c = "A" -> "a" [] c = "E" -> "e" [] c = "F" -> "f" [] c = "I" -> "i"
      [] c = "N" -> "n" [] c = "T" -> "t" [] c = "Y" -> "y" [] OTHER -> c

Min(a, b) == IF a <= b THEN a ELSE b

Zeros(n) == [k \in 1..n |-> 0]

\* the digits ds without their leading zeros
StripZeros(ds) ==
    SubSeq(ds, 1 + Cardinality({k \in 1..Len(ds) : \A m \in 1..k : ds[m] = 0}),
           Len(ds))

NonZero(ds) == \E k \in 1..Len(ds) : ds[k] # 0

\* the value the parser gives the exponent digits: it reads them all and adds
\* a digit while the value is below 0x10000, so that the value is exact up to
\* that and stays where it is beyond
ExponentValue(edigits) ==
    LET ds == StripZeros([k \in 1..Len(edigits) |-> DigitVal(edigits[k])])
        first == SubSeq(ds, 1, Min(Len(ds), 5))
        taken == [k \in 1..Len(first) |-> DigitChar(first[k])]
        n == IF Len(ds) >= 5 /\ Decimal(taken) >= 65536 THEN 5 ELSE 6
    IN  Decimal([k \in 1..Min(Len(ds), n) |-> DigitChar(ds[k])])

\* the grammar of f64::from_str: an optional sign, then inf, infinity or nan,
\* or digits with an optional point and at least one digit, optionally
\* followed by e, an optional sign and at least one digit
FloatLiteral(chars) ==
    LET signed == Len(chars) > 0 /\ chars[1] \in Signs
        body == IF signed THEN Tail(chars) ELSE chars
        low == [k \in 1..Len(body) |-> Lower(body[k])]
        es == {k \in 1..Len(low) : low[k] = "e"}
        e == IF es = {} THEN Len(body) + 1 ELSE CHOOSE k \in es : \A m \in es : k <= m
        mant == SubSeq(body, 1, e - 1)
        dots == {k \in 1..Len(mant) : mant[k] = "."}
        dot == IF dots = {} THEN Len(mant) + 1
               ELSE CHOOSE k \in dots : \A m \in dots : k <= m
        int == SubSeq(mant, 1, dot - 1)
        frac == SubSeq(mant, dot + 1, Len(mant))
        exp == SubSeq(body, e + 1, Len(body))
        esigned == Len(exp) > 0 /\ exp[1] \in Signs
        edigits == IF esigned THEN Tail(exp) ELSE exp
        number == /\ \A k \in 1..Len(int) : int[k] \in Digits
                  /\ \A k \in 1..Len(frac) : frac[k] \in Digits
                  /\ Len(int) + Len(frac) > 0
                  /\ es # {} => /\ Len(edigits) > 0
                                /\ \A k \in 1..Len(edigits) : edigits[k] \in Digits
        negative == signed /\ chars[1] = "-"
        none == [kind |-> "none", negative |-> FALSE, int |-> <<>>, frac |-> <<>>,
                 exp |-> 0]
    IN  IF low \in {<<"i", "n", "f">>, <<"i", "n", "f", "i", "n", "i", "t", "y">>}
        THEN [none EXCEPT !.kind = "inf", !.negative = negative]
        ELSE IF low = <<"n", "a", "n">>
        THEN [none EXCEPT !.kind = "nan", !.negative = negative]
        ELSE IF number
        THEN [kind |-> "number", negative |-> negative,
              int |-> [k \in 1..Len(int) |-> DigitVal(int[k])],
              frac |-> [k \in 1..Len(frac) |-> DigitVal(frac[k])],
              exp |-> IF esigned /\ exp[1] = "-" THEN 0 - ExponentValue(edigits)
                      ELSE ExponentValue(edigits)]
        ELSE none

\* the decimal digits ds halved: each digit takes the remainder of the one
\* before it
HalveDigits(ds) ==
    [k \in 1..Len(ds) |->
        (10 * (IF k = 1 THEN 0 ELSE ds[k - 1] % 2) + ds[k]) \div 2]

\* the decimal digits ds doubled plus c: one digit more, the first the carry;
\* a digit carries exactly when it is 5 or more
DoubleDigits(ds, c) ==
    [k \in 1..(Len(ds) + 1) |->
        LET carry == IF k = Len(ds) + 1 THEN c
                     ELSE IF ds[k] >= 5 THEN 1 ELSE 0
        IN  IF k = 1 THEN carry ELSE (2 * ds[k - 1] + carry) % 10]

\* the binary digits of the integer with decimal digits ds, without leading
\* zeros
RECURSIVE IntBits(_)
IntBits(ds) ==
    IF ~NonZero(ds) THEN <<>>
    ELSE IntBits(HalveDigits(ds)) \o <<ds[Len(ds)] % 2>>

\* the first n binary digits of the fraction with decimal digits ds
RECURSIVE FracBits(_, _)
FracBits(ds, n) ==
    IF n = 0 THEN <<>>
    ELSE LET d == DoubleDigits(ds, 0)
         IN  <<d[1]>> \o FracBits(Tail(d), n - 1)

\* what is left of that fraction beyond its first n binary digits
RECURSIVE FracRest(_, _)
FracRest(ds, n) ==
    IF n = 0 \/ ~NonZero(ds) THEN ds
    ELSE FracRest(Tail(DoubleDigits(ds, 0)), n - 1)

\* the binary digits bits plus one: one digit more, the first the carry
IncBits(bits) ==
    LET padded == <<0>> \o bits
        zeros == {k \in 1..Len(padded) : padded[k] = 0}
        z == CHOOSE k \in zeros : \A m \in zeros : m <= k
    IN  [k \in 1..Len(padded) |->
            IF k < z THEN padded[k] ELSE IF k = z THEN 1 ELSE 0]

\* the decimal digits of the integer whose binary digits are those of acc
\* followed by bits
RECURSIVE BitsToDigits(_, _)
BitsToDigits(bits, acc) ==
    IF bits = <<>> \/ Len(acc) > 20 THEN acc
    ELSE BitsToDigits(Tail(bits), StripZeros(DoubleDigits(acc, Head(bits))))

U64_MAX ==
    <<"1", "8", "4", "4", "6", "7", "4", "4", "0", "7", "3", "7", "0", "9", "5", "5",
      "1", "6", "1", "5">>

\* the bits of an f64 kept: a significand of 53 binary digits
MANTISSA_DIGITS == 53

\* a plausible slip: the fraction cut off (`as u64` without round())
F64Round_Truncated(int, half) == <<0>> \o int

\* f64::round on a non-negative value with integer binary digits int and first
\* fractional binary digit half: half-way cases away from zero
F64Round(int, half) == IF half = 1 THEN IncBits(int) ELSE <<0>> \o int

\* `as u64` on a non-negative integral f64 with binary digits bits: the value
\* if it is below 2^64, else u64::MAX
F64AsU64(bits) ==
    LET sig == StripZeros(bits)
        ds == BitsToDigits(sig, <<>>)
    IN  IF Len(sig) > 64 THEN U64_MAX
        ELSE IF ds = <<>> THEN <<"0">>
        ELSE [k \in 1..Len(ds) |-> DigitChar(ds[k])]

\* the non-negative decimal with integer digits I and fraction digits F,
\* converted to the nearest f64 (ties to the even significand), rounded and
\* cast
NearestF64RoundedAsU64(I, F) ==
    LET int == IntBits(I)
        b == Len(int)
        W == int \o FracBits(F, MANTISSA_DIGITS + 3)
        ones == {k \in 1..Len(W) : W[k] = 1}
        s == CHOOSE k \in ones : \A m \in ones : k <= m
        last_kept == s + MANTISSA_DIGITS - 1
        sticky == \/ \E k \in (last_kept + 2)..Len(W) : W[k] = 1
                  \/ NonZero(FracRest(F, MANTISSA_DIGITS + 3))
        up == W[last_kept + 1] = 1 /\ (sticky \/ W[last_kept] = 1)
        kept == SubSeq(W, 1, last_kept)
        Q == IF up THEN IncBits(kept) ELSE <<0>> \o kept
        whole == IF Len(Q) >= b + 1 THEN SubSeq(Q, 1, b + 1)
                 ELSE Q \o Zeros(b + 1 - Len(Q))
        half == IF Len(Q) >= b + 2 THEN Q[b + 2] ELSE 0
    IN  IF ones = {} \/ s > b + 2 THEN <<"0">>
        ELSE F64AsU64(F64Round(whole, half))

\* the literal as f64, rounded and cast: NaN and what is negative give 0,
\* infinity and what is 2^64 or more give u64::MAX
RoundedAsU64(lit) ==
    LET all == lit.int \o lit.frac
        sig == StripZeros(all)
        q == Len(lit.int) + lit.exp - (Len(all) - Len(sig))
        I == IF q >= Len(sig) THEN sig \o Zeros(q - Len(sig)) ELSE SubSeq(sig, 1, q)
        F == IF q >= Len(sig) THEN <<>> ELSE SubSeq(sig, q + 1, Len(sig))
    IN  IF lit.kind = "nan" \/ lit.negative THEN <<"0">>
        ELSE IF lit.kind = "inf" THEN U64_MAX
        ELSE IF sig = <<>> \/ q < 0 THEN <<"0">>
        ELSE IF q > 20 THEN U64_MAX
        ELSE NearestF64RoundedAsU64(I, F)

\* Result<u64>: recording_duration.parse::<f64>()?.round() as u64
ParseRoundedDuration(chars) ==
    LET lit == FloatLiteral(chars)
    IN  IF lit.kind = "none" THEN [ok |-> FALSE, val |-> <<"0">>]
        ELSE [ok |-> TRUE, val |-> RoundedAsU64(lit)]

\* that expression on each duration a task.complete notice may carry
ParsedDurations == [s \in FloatStrings |-> ParseRoundedDuration(s)]

\* ------------------------------------------------------------------- state
VARIABLES
    class,        \* the minigroup's row of table class
    classes,      \* the rows of table class inserted by class creation
    recordings,   \* table recording, in insertion order (committed rows only)
    run,          \* the handler invocations that are running, in the order they entered
    last,         \* the invocation that returned last
    started,      \* the number of invocations so far
    issued,       \* the methods of the external calls issued so far
    commits,      \* per track list, the handle_upload invocations whose insert committed
    fin,          \* the arguments of the build_stream call of PinSpec
    fout          \* what the call returned

vars == <<class, classes, recordings, run, last, started, issued, commits, fin, fout>>

MinigroupId == "minigroup1"

NoTxn == [rows |-> <<>>, class |-> None, locked |-> {}]
NoLoc == [recordings |-> <<>>, host |-> None, duration |-> None]

\* a fresh invocation of handler op with payload arg; minigroup is the Class
\* object the strategy was constructed with
NewInv(op, arg, pc) ==
    [op |-> op, arg |-> arg, pc |-> pc, ret |-> "pending", minigroup |-> class,
     txn |-> NoTxn, loc |-> NoLoc, calls |-> <<>>,
     committed |-> FALSE, fetched |-> None]

\* the handler returns r; its transaction (if still open) is rolled back and
\* its locals are dropped
Returned(inv, r) ==
    [inv EXCEPT !.pc = "done", !.ret = r, !.txn = NoTxn, !.loc = NoLoc]

\* no invocation has returned yet
NoInv == [op |-> "none", pc |-> "done", ret |-> "none", calls |-> <<>>]

Running == 1..Len(run)
CanStart == started < MaxInv /\ Len(run) < MaxConc

Issued(method) == method \in issued
Methods(calls) == {calls[k].method : k \in 1..Len(calls)}
CallsOf(inv, method) == SelectSeq(inv.calls, LAMBDA c : c.method = method)

InitMain ==
    /\ class = [id |-> MinigroupId, audience |-> "usr.example.org",
                scope |-> "minigroup123", tags |-> None,
                host |-> Some("user1"),
                event_room_id |-> "event_room1",
                original_event_room_id |-> NULL,
                modified_event_room_id |-> NULL]
    /\ classes = <<>>
    /\ recordings = <<>>
    /\ run = <<>>
    /\ last = NoInv
    /\ started = 0
    /\ issued = {}
    /\ commits = [rtcs \in UploadInputs |-> 0]

Init ==
    /\ InitMain
    /\ fin = None
    /\ fout = None

\* invocation i makes the step to record inv, which may be its return
Step(i, inv) ==
    /\ IF inv.pc = "done"
       THEN /\ run' = SubSeq(run, 1, i - 1) \o SubSeq(run, i + 1, Len(run))
            /\ last' = inv
       ELSE /\ run' = [run EXCEPT ![i] = inv]
            /\ last' = last
    /\ issued' = issued \cup Methods(inv.calls)
    /\ started' = started

\* a step of a pipeline handler: it inserts no class
Do(i, inv) ==
    /\ Step(i, inv)
    /\ classes' = classes

\* a new invocation enters with record inv (it may return at once)
Enter(inv) ==
    /\ IF inv.pc = "done"
       THEN /\ run' = run
            /\ last' = inv
       ELSE /\ run' = Append(run, inv)
            /\ last' = last
    /\ issued' = issued \cup Methods(inv.calls)
    /\ started' = started + 1

\* a pipeline handler enters
Start(inv) ==
    /\ CanStart
    /\ Enter(inv)
    /\ classes' = classes

\* ----------------------------------------------------------- handle_upload
\* RecordingInsertQuery: the row inserted for a ready track
RecordingRow(class_id, rtc) ==
    [class_id |-> class_id, rtc_id |-> rtc.id, stream_uri |-> rtc.uri,
     started_at |-> rtc.started_at, segments |-> rtc.segments,
     created_by |-> rtc.created_by, adjusted_at |-> NULL,
     modified_segments |-> None, transcoded_at |-> NULL]

\* the rows of the first n INSERTs for the tracks rtcs
InsertedRows(class_id, rtcs, n) ==
    [k \in 1..n |-> RecordingRow(class_id, rtcs[k])]

\* a plausible slip: an empty notice taken for nothing to do
HandleUpload_StartEmptyOk(rtcs) ==
    /\ \E n \in 0..Len(rtcs) :
        LET inv == NewInv("handle_upload", rtcs, "start")
        IN  Start(IF Len(rtcs) = 0 THEN Returned(inv, "ok")
                  ELSE IF n < Len(rtcs) THEN Returned(inv, "err")
                  ELSE [inv EXCEPT !.txn.rows = InsertedRows(class.id, rtcs, n),
                                   !.pc = "insert_commit"])
    /\ UNCHANGED <<class, recordings, commits, fin, fout>>

\* a plausible slip: each INSERT on the connection itself, outside a transaction
HandleUpload_StartAutocommit(rtcs) ==
    /\ \E n \in 0..Len(rtcs) :
        LET inv == NewInv("handle_upload", rtcs, "start")
        IN  /\ Start(IF Len(rtcs) = 0 \/ n < Len(rtcs) THEN Returned(inv, "err")
                     ELSE [inv EXCEPT !.pc = "insert_commit"])
            /\ recordings' = recordings \o InsertedRows(class.id, rtcs, n)
    /\ UNCHANGED <<class, commits, fin, fout>>

\* the check of the track list, then insert_recordings up to its commit: one
\* INSERT per track inside the transaction; n of them succeed, and a failed
\* statement (or connection) rolls the transaction back
HandleUpload_Start(rtcs) ==
    /\ \E n \in 0..Len(rtcs) :
        LET inv == NewInv("handle_upload", rtcs, "start")
        IN  Start(IF Len(rtcs) = 0 \/ n < Len(rtcs) THEN Returned(inv, "err")
                  ELSE [inv EXCEPT !.txn.rows = InsertedRows(class.id, rtcs, n),
                                   !.pc = "insert_commit"])
    /\ UNCHANGED <<class, recordings, commits, fin, fout>>

\* the rows of rows whose track no recording of the table has yet
RECURSIVE NewTracksOnly(_, _)
NewTracksOnly(rows, table) ==
    IF Len(rows) = 0 THEN <<>>
    ELSE IF \E k \in 1..Len(table) : table[k].rtc_id = Head(rows).rtc_id
              /\ table[k].class_id = Head(rows).class_id
         THEN NewTracksOnly(Tail(rows), table)
         ELSE <<Head(rows)>> \o NewTracksOnly(Tail(rows), Append(table, Head(rows)))

\* a plausible change: inserts keyed on (class_id, rtc_id), duplicates skipped
InsertRecordings_CommitDedup(i) ==
    /\ run[i].pc = "insert_commit"
    /\ \E ok \in BOOLEAN :
        IF ok
        THEN /\ recordings' = recordings \o NewTracksOnly(run[i].txn.rows, recordings)
             /\ commits' = [commits EXCEPT ![run[i].arg] = @ + 1]
             /\ Do(i, [run[i] EXCEPT !.txn = NoTxn, !.committed = TRUE,
                                   !.pc = "call_adjust"])
        ELSE /\ UNCHANGED <<recordings, commits>>
             /\ Do(i, Returned(run[i], "err"))
    /\ UNCHANGED <<class, fin, fout>>

\* a plausible slip: the transaction dropped without txn.commit()
InsertRecordings_CommitMissing(i) ==
    /\ run[i].pc = "insert_commit"
    /\ Do(i, [run[i] EXCEPT !.txn = NoTxn, !.pc = "call_adjust"])
    /\ UNCHANGED <<class, recordings, commits, fin, fout>>

\* insert_recordings: txn.commit()
InsertRecordings_Commit(i) ==
    /\ run[i].pc = "insert_commit"
    /\ \E ok \in BOOLEAN :
        IF ok
        THEN /\ recordings' = recordings \o run[i].txn.rows
             /\ commits' = [commits EXCEPT ![run[i].arg] = @ + 1]
             /\ Do(i, [run[i] EXCEPT !.txn = NoTxn, !.committed = TRUE,
                                   !.pc = "call_adjust"])
        ELSE /\ UNCHANGED <<recordings, commits>>
             /\ Do(i, Returned(run[i], "err"))
    /\ UNCHANGED <<class, fin, fout>>

AdjustRoomCall(room_id, started_at, segments, offset, ok) ==
    [method |-> "adjust_room", room_id |-> room_id, started_at |-> started_at,
     segments |-> segments, offset |-> offset, ok |-> ok]

\* a plausible slip: the first track's started_at and no preroll, as the
\* per-track webinar flow calls adjust_room
CallAdjustFirstTrack(i) ==
    /\ run[i].pc = "call_adjust"
    /\ LET segments == build_adjust_segments(run[i].arg)
       IN  IF ~segments.ok
           THEN Do(i, Returned(run[i], "err"))
           ELSE \E ok \in BOOLEAN :
                  Do(i, Returned([run[i] EXCEPT !.calls = Append(@,
                            AdjustRoomCall(run[i].minigroup.event_room_id,
                                           run[i].arg[1].started_at, segments.val, 0, ok))],
                         IF ok THEN "ok" ELSE "err"))
    /\ UNCHANGED <<class, recordings, commits, fin, fout>>

\* a plausible slip: tracks without a segment adjusted with an empty envelope
CallAdjust_EmptyEnvelope(i) ==
    /\ run[i].pc = "call_adjust"
    /\ LET started_at == MinStartedAt(run[i].arg)
           segments == build_adjust_segments(run[i].arg)
       IN  IF started_at = None
           THEN Do(i, Returned(run[i], "err"))
           ELSE \E ok \in BOOLEAN :
                  Do(i, Returned([run[i] EXCEPT !.calls = Append(@,
                            AdjustRoomCall(run[i].minigroup.event_room_id, started_at[1],
                                           IF segments.ok THEN segments.val ELSE <<>>,
                                           PREROLL_OFFSET, ok))],
                         IF ok THEN "ok" ELSE "err"))
    /\ UNCHANGED <<class, recordings, commits, fin, fout>>

\* call_adjust: the envelope of the tracks, then EventClient::adjust_room
CallAdjust(i) ==
    /\ run[i].pc = "call_adjust"
    /\ LET started_at == MinStartedAt(run[i].arg)
           segments == build_adjust_segments(run[i].arg)
       IN  IF started_at = None \/ ~segments.ok
           THEN Do(i, Returned(run[i], "err"))
           ELSE \E ok \in BOOLEAN :
                  Do(i, Returned([run[i] EXCEPT !.calls = Append(@,
                            AdjustRoomCall(run[i].minigroup.event_room_id, started_at[1],
                                           segments.val, PREROLL_OFFSET, ok))],
                         IF ok THEN "ok" ELSE "err"))
    /\ UNCHANGED <<class, recordings, commits, fin, fout>>

\* ----------------------------------------------------------- handle_adjust
\* rows of table recording locked by the open transactions of invocations
\* other than i (an UPDATE of such a row waits for the end of that transaction)
ClassLockedByOther(i) ==
    \E j \in Running \ {i} : run[j].txn.class # None
RowsLockedByOther(i) ==
    UNION {run[j].txn.locked : j \in Running \ {i}}
RowsOfClass(class_id) ==
    {k \in 1..Len(recordings) : recordings[k].class_id = class_id}

\* a plausible slip: the failure of the adjustment logged and dropped
HandleAdjust_StartErrorOk(res) ==
    /\ Start(IF res.kind = "Error"
             THEN Returned(NewInv("handle_adjust", res, "start"), "ok")
             ELSE NewInv("handle_adjust", res, "adjust_transaction"))
    /\ UNCHANGED <<class, recordings, commits, fin, fout>>

\* the match on the result
HandleAdjust_Start(res) ==
    /\ Start(IF res.kind = "Error"
             THEN Returned(NewInv("handle_adjust", res, "start"), "err")
             ELSE NewInv("handle_adjust", res, "adjust_transaction"))
    /\ UNCHANGED <<class, recordings, commits, fin, fout>>

\* db::recording::AdjustMinigroupUpdateQuery: every recording of the class
\* gets adjusted_at and modified_segments = segments
AdjustedRow(row) ==
    [row EXCEPT !.adjusted_at = Now, !.modified_segments = Some(row.segments)]

\* a plausible slip: the UPDATE of the class on the connection itself, outside
\* the transaction
HandleAdjust_TransactionClassAutocommit(i) ==
    /\ run[i].pc = "adjust_transaction"
    /\ ~ClassLockedByOther(i)
    /\ RowsLockedByOther(i) \cap RowsOfClass(run[i].minigroup.id) = {}
    /\ \E class_ok \in BOOLEAN, ok \in BOOLEAN :
        /\ Do(i, IF ~(class_ok /\ ok) THEN Returned(run[i], "err")
                 ELSE [run[i] EXCEPT !.txn.class = Some(<<run[i].arg.original_room_id,
                                                       run[i].arg.modified_room_id>>),
                                   !.txn.locked = RowsOfClass(run[i].minigroup.id),
                                   !.loc.host = class.host,
                                   !.loc.recordings =
                                       [k \in 1..Len(recordings) |-> AdjustedRow(recordings[k])],
                                   !.pc = "adjust_commit"])
        /\ class' = IF class_ok
                    THEN [class EXCEPT
                            !.original_event_room_id = run[i].arg.original_room_id,
                            !.modified_event_room_id = run[i].arg.modified_room_id]
                    ELSE class
    /\ UNCHANGED <<recordings, commits, fin, fout>>

\* a plausible slip: original_event_room_id written by a statement of its own
\* on the connection, modified_event_room_id by the transaction
HandleAdjust_TransactionOriginalFirst(i) ==
    /\ run[i].pc = "adjust_transaction"
    /\ RowsLockedByOther(i) \cap RowsOfClass(run[i].minigroup.id) = {}
    /\ \E ok \in BOOLEAN :
        Do(i, IF ~ok THEN Returned(run[i], "err")
              ELSE [run[i] EXCEPT !.txn.class = Some(<<run[i].arg.original_room_id,
                                                    run[i].arg.modified_room_id>>),
                                !.txn.locked = RowsOfClass(run[i].minigroup.id),
                                !.loc.host = class.host,
                                !.loc.recordings =
                                    [k \in 1..Len(recordings) |-> AdjustedRow(recordings[k])],
                                !.pc = "adjust_commit"])
    /\ class' = [class EXCEPT !.original_event_room_id = run[i].arg.original_room_id]
    /\ UNCHANGED <<recordings, commits, fin, fout>>

\* the statements of the transaction: db::class::UpdateQuery (the class row
\* is locked, its new room ids pending until the commit, the updated row
\* returned), then AdjustMinigroupUpdateQuery (the recordings of the class
\* locked, their update pending, the updated rows returned); a failed
\* statement rolls the transaction back
HandleAdjust_Transaction(i) ==
    /\ run[i].pc = "adjust_transaction"
    /\ ~ClassLockedByOther(i)
    /\ RowsLockedByOther(i) \cap RowsOfClass(run[i].minigroup.id) = {}
    /\ \E ok \in BOOLEAN :
        Do(i, IF ~ok THEN Returned(run[i], "err")
              ELSE [run[i] EXCEPT !.txn.class = Some(<<run[i].arg.original_room_id,
                                                    run[i].arg.modified_room_id>>),
                                !.txn.locked = RowsOfClass(run[i].minigroup.id),
                                !.loc.host = class.host,
                                !.loc.recordings =
                                    [k \in 1..Len(recordings) |-> AdjustedRow(recordings[k])],
                                !.pc = "adjust_commit"])
    /\ UNCHANGED <<class, recordings, commits, fin, fout>>

\* a plausible slip: a class that has a modified room already gets that room
\* as its original room, so that a result handled twice is applied twice
HandleAdjust_CommitChained(i) ==
    /\ run[i].pc = "adjust_commit"
    /\ \E ok \in BOOLEAN :
        IF ok
        THEN /\ class' = [class EXCEPT
                            !.original_event_room_id =
                                IF class.modified_event_room_id = NULL
                                THEN run[i].txn.class[1][1]
                                ELSE class.modified_event_room_id,
                            !.modified_event_room_id = run[i].txn.class[1][2]]
             /\ recordings' = [k \in 1..Len(recordings) |->
                                 IF k \in run[i].txn.locked
                                 THEN AdjustedRow(recordings[k])
                                 ELSE recordings[k]]
             /\ Do(i, [run[i] EXCEPT !.txn = NoTxn, !.committed = TRUE,
                          !.fetched = Some(run[i].loc.recordings),
                          !.pc = "adjust_build_task"])
        ELSE /\ UNCHANGED <<class, recordings>>
             /\ Do(i, Returned(run[i], "err"))
    /\ UNCHANGED <<commits, fin, fout>>

\* txn.commit(): the pending writes become visible together
HandleAdjust_Commit(i) ==
    /\ run[i].pc = "adjust_commit"
    /\ \E ok \in BOOLEAN :
        IF ok
        THEN /\ class' = [class EXCEPT
                            !.original_event_room_id = run[i].txn.class[1][1],
                            !.modified_event_room_id = run[i].txn.class[1][2]]
             /\ recordings' = [k \in 1..Len(recordings) |->
                                 IF k \in run[i].txn.locked
                                 THEN AdjustedRow(recordings[k])
                                 ELSE recordings[k]]
             /\ Do(i, [run[i] EXCEPT !.txn = NoTxn, !.committed = TRUE,
                          !.fetched = Some(run[i].loc.recordings),
                          !.pc = "adjust_build_task"])
        ELSE /\ UNCHANGED <<class, recordings>>
             /\ Do(i, Returned(run[i], "err"))
    /\ UNCHANGED <<commits, fin, fout>>

\* a plausible slip: the first recording taken for the earliest one
EarliestRecordingIsFirst(recs) == recs[1]

\* recordings.iter().min_by(started_at): the first of the earliest recordings
RECURSIVE EarliestRecording(_)
EarliestRecording(recs) ==
    IF Len(recs) = 1 THEN recs[1]
    ELSE LET rest == EarliestRecording(Tail(recs))
         IN  IF Head(recs).started_at <= rest.started_at THEN Head(recs) ELSE rest

\* a plausible slip: the stream bindings collected in reverse
BuildStreams_Reversed(recs, pin_events, opened_at) ==
    [k \in 1..Len(recs) |->
        build_stream(recs[Len(recs) + 1 - k], pin_events,
                     recs[Len(recs) + 1 - k].started_at - opened_at,
                     recs[Len(recs) + 1 - k].started_at
                        - EarliestRecording(recs).started_at)]

\* the stream bindings of the task, in the order of the fetched recordings
BuildStreams(recs, pin_events, opened_at) ==
    [k \in 1..Len(recs) |->
        build_stream(recs[k], pin_events,
                     recs[k].started_at - opened_at,
                     recs[k].started_at - EarliestRecording(recs).started_at)]

\* a plausible slip: the last recording of the host instead of the first
FindHostStreamIdLast(host, recs) ==
    IF host = None THEN None
    ELSE LET hits == {k \in 1..Len(recs) : AsAccountId(recs[k].created_by) = host[1]}
         IN  IF hits = {} THEN None
             ELSE Some(recs[CHOOSE k \in hits : \A m \in hits : k >= m].rtc_id)

\* minigroup.host().and_then(|host| recordings.iter().find(..).map(rtc_id))
FindHostStreamId(host, recs) ==
    IF host = None THEN None
    ELSE LET hits == {k \in 1..Len(recs) : AsAccountId(recs[k].created_by) = host[1]}
         IN  IF hits = {} THEN None
             ELSE Some(recs[CHOOSE k \in hits : \A m \in hits : k <= m].rtc_id)

\* a read_room call with what it returned: the room's time, <<>> for a failure
ReadRoomCall(id, room) ==
    [method |-> "read_room", id |-> id, ok |-> room.ok, time |-> room.time]
\* a list_events call with what it returned: the events, <<>> for a failure
ListEventsCall(room_id, kind, res) ==
    [method |-> "list_events", room_id |-> room_id, kind |-> kind, ok |-> res.ok,
     events |-> res.events]
CreateTaskCall(class_id, streams, host_stream_id, ok) ==
    [method |-> "create_task", class_id |-> class_id,
     task |-> [template |-> "TranscodeMinigroupToHls", streams |-> streams,
               host_stream_id |-> host_stream_id],
     ok |-> ok]

\* a plausible slip: one task per recording, as the per-track webinar flow does
TaskPerTrack(class_id, streams, host_stream_id, ok) ==
    [k \in 1..Len(streams) |-> CreateTaskCall(class_id, <<streams[k]>>, host_stream_id, ok)]

\* the tasks submitted for the fetched recordings: a single one with all streams
OneTask(class_id, streams, host_stream_id, ok) ==
    <<CreateTaskCall(class_id, streams, host_stream_id, ok)>>

\* a plausible slip: the opening time taken from any bound that carries one
ReadRoom_AnyOpeningBound(i) ==
    \E room \in RoomResponses :
        LET read == ReadRoomCall(run[i].arg.modified_room_id, room)
        IN  IF ~(room.ok /\ room.time[1][1] \in {"Included", "Excluded"})
            THEN Do(i, Returned([run[i] EXCEPT !.calls = <<read>>], "err"))
            ELSE Do(i, [run[i] EXCEPT !.calls = <<read>>,
                                      !.pc = "adjust_list_events"])

\* read_room of the modified room is answered: a failure of the call, or an
\* opening bound that is not Included, ends the handler; otherwise list_events
\* is sent
ReadRoom(i) ==
    \E room \in RoomResponses :
        LET read == ReadRoomCall(run[i].arg.modified_room_id, room)
        IN  IF ~(room.ok /\ room.time[1][1] = "Included")
            THEN Do(i, Returned([run[i] EXCEPT !.calls = <<read>>], "err"))
            ELSE Do(i, [run[i] EXCEPT !.calls = <<read>>,
                                      !.pc = "adjust_list_events"])

\* a plausible slip: the task is built without looking for an earliest
\* recording, so a class without recordings gets a task without streams
HandleAdjust_BuildTask_Unchecked(i) ==
    /\ run[i].pc = "adjust_build_task"
    /\ ReadRoom(i)
    /\ UNCHANGED <<class, recordings, commits, fin, fout>>

\* the part of handle_adjust after the commit: the earliest recording ("No
\* recordings" when there is none), then read_room, awaited
HandleAdjust_BuildTask(i) ==
    /\ run[i].pc = "adjust_build_task"
    /\ IF Len(run[i].loc.recordings) = 0
       THEN Do(i, Returned(run[i], "err"))
       ELSE ReadRoom(i)
    /\ UNCHANGED <<class, recordings, commits, fin, fout>>

\* list_events for the pin events of the modified room is answered; after it
\* the streams are built and create_task is sent
HandleAdjust_ListEvents(i) ==
    /\ run[i].pc = "adjust_list_events"
    /\ \E events \in EventResponses :
        LET list == ListEventsCall(run[i].arg.modified_room_id, PIN_EVENT_TYPE, events)
        IN  IF ~events.ok
            THEN Do(i, Returned([run[i] EXCEPT !.calls = Append(@, list)], "err"))
            ELSE Do(i, [run[i] EXCEPT !.calls = Append(@, list),
                                      !.pc = "adjust_create_task"])
    /\ UNCHANGED <<class, recordings, commits, fin, fout>>

\* a plausible slip: a result handled again submits only what was not
\* submitted before, so once a task has been created the next one carries no
\* stream
HandleAdjust_CreateTask_OnlyNew(i) ==
    /\ run[i].pc = "adjust_create_task"
    /\ \E ok \in BOOLEAN :
        LET recs == run[i].loc.recordings
            opened_at == run[i].calls[1].time[1][2]
            pin_events == run[i].calls[2].events
            streams == IF Issued("create_task") THEN <<>>
                       ELSE BuildStreams(recs, pin_events, opened_at)
            host_stream_id == FindHostStreamId(run[i].loc.host, recs)
        IN  Do(i, Returned([run[i] EXCEPT !.calls =
                     @ \o OneTask(run[i].minigroup.id, streams, host_stream_id, ok)],
                   IF ok THEN "ok" ELSE "err"))
    /\ UNCHANGED <<class, recordings, commits, fin, fout>>

\* create_task is answered: the task carries the streams of the recordings the
\* transaction returned, built with the opening time read_room gave and the
\* pin events list_events gave, and the host's stream
HandleAdjust_CreateTask(i) ==
    /\ run[i].pc = "adjust_create_task"
    /\ \E ok \in BOOLEAN :
        LET recs == run[i].loc.recordings
            opened_at == run[i].calls[1].time[1][2]
            pin_events == run[i].calls[2].events
            streams == BuildStreams(recs, pin_events, opened_at)
            host_stream_id == FindHostStreamId(run[i].loc.host, recs)
        IN  Do(i, Returned([run[i] EXCEPT !.calls =
                     @ \o OneTask(run[i].minigroup.id, streams, host_stream_id, ok)],
                   IF ok THEN "ok" ELSE "err"))
    /\ UNCHANGED <<class, recordings, commits, fin, fout>>

\* ------------------------------------------- handle_transcoding_completion
\* a plausible slip: a duration that does not parse taken for 0
\* (parse().unwrap_or_default())
HandleTranscodingCompletion_StartParseDefault(res) ==
    /\ LET inv == NewInv("handle_transcoding_completion", res, "start")
           parsed == ParsedDurations[res.recording_duration]
       IN  Start(IF res.kind = "Success" /\ res.template = "TranscodeMinigroupToHls"
                 THEN [inv EXCEPT !.loc.duration = Some(parsed.val),
                                  !.pc = "transcoding_update"]
                 ELSE Returned(inv, "err"))
    /\ UNCHANGED <<class, recordings, commits, fin, fout>>

\* the match on the result and the parse of the duration
HandleTranscodingCompletion_Start(res) ==
    /\ LET inv == NewInv("handle_transcoding_completion", res, "start")
           parsed == ParsedDurations[res.recording_duration]
       IN  Start(IF res.kind = "Success" /\ res.template = "TranscodeMinigroupToHls"
                 THEN IF parsed.ok
                      THEN [inv EXCEPT !.loc.duration = Some(parsed.val),
                                       !.pc = "transcoding_update"]
                      ELSE Returned(inv, "err")
                 ELSE Returned(inv, "err"))
    /\ UNCHANGED <<class, recordings, commits, fin, fout>>

\* db::recording::TranscodingUpdateQuery: a recording of the class gets
\* transcoded_at
TranscodedRow(row) == [row EXCEPT !.transcoded_at = Now]

\* TranscodingUpdateQuery on the connection itself: one statement, committed
\* when it returns
HandleTranscodingCompletion_Update(i) ==
    /\ run[i].pc = "transcoding_update"
    /\ RowsLockedByOther(i) \cap RowsOfClass(run[i].minigroup.id) = {}
    /\ \E ok \in BOOLEAN :
        IF ok
        THEN /\ recordings' = [k \in 1..Len(recordings) |->
                                 IF recordings[k].class_id = run[i].minigroup.id
                                 THEN TranscodedRow(recordings[k])
                                 ELSE recordings[k]]
             /\ Do(i, [run[i] EXCEPT !.committed = TRUE, !.pc = "publish_ready"])
        ELSE /\ recordings' = recordings
             /\ Do(i, Returned(run[i], "err"))
    /\ UNCHANGED <<class, commits, fin, fout>>

\* a plausible slip: a failed publication logged and not returned, as
\* MessageHandler::handle_transcoding does
HandleTranscodingCompletion_PublishFailureLogged(i) ==
    /\ run[i].pc = "publish_ready"
    /\ \E ok \in BOOLEAN :
        LET call == [method |-> "publish", label |-> "minigroup.ready",
                     kind |-> "broadcast",
                     path |-> <<"audiences", run[i].minigroup.audience, "events">>,
                     payload |-> [id |-> run[i].minigroup.id,
                                  scope |-> run[i].minigroup.scope,
                                  tags |-> run[i].minigroup.tags,
                                  status |-> "success",
                                  recording_duration |-> run[i].loc.duration[1]],
                     ok |-> ok]
        IN  Do(i, Returned([run[i] EXCEPT !.calls = Append(@, call)],
                           "ok"))
    /\ UNCHANGED <<class, recordings, commits, fin, fout>>

\* a plausible slip: the transcoded marks taken back when the publication fails
HandleTranscodingCompletion_PublishOrUnmark(i) ==
    /\ run[i].pc = "publish_ready"
    /\ \E ok \in BOOLEAN :
        LET call == [method |-> "publish", label |-> "minigroup.ready",
                     kind |-> "broadcast",
                     path |-> <<"audiences", run[i].minigroup.audience, "events">>,
                     payload |-> [id |-> run[i].minigroup.id,
                                  scope |-> run[i].minigroup.scope,
                                  tags |-> run[i].minigroup.tags,
                                  status |-> "success",
                                  recording_duration |-> run[i].loc.duration[1]],
                     ok |-> ok]
        IN  /\ Do(i, Returned([run[i] EXCEPT !.calls = Append(@, call)],
                              IF ok THEN "ok" ELSE "err"))
            /\ recordings' = IF ok THEN recordings
                             ELSE [k \in 1..Len(recordings) |->
                                     IF recordings[k].class_id = run[i].minigroup.id
                                     THEN [recordings[k] EXCEPT !.transcoded_at = NULL]
                                     ELSE recordings[k]]
    /\ UNCHANGED <<class, commits, fin, fout>>

\* the broadcast minigroup.ready event
HandleTranscodingCompletion_Publish(i) ==
    /\ run[i].pc = "publish_ready"
    /\ \E ok \in BOOLEAN :
        LET call == [method |-> "publish", label |-> "minigroup.ready",
                     kind |-> "broadcast",
                     path |-> <<"audiences", run[i].minigroup.audience, "events">>,
                     payload |-> [id |-> run[i].minigroup.id,
                                  scope |-> run[i].minigroup.scope,
                                  tags |-> run[i].minigroup.tags,
                                  status |-> "success",
                                  recording_duration |-> run[i].loc.duration[1]],
                     ok |-> ok]
        IN  Do(i, Returned([run[i] EXCEPT !.calls = Append(@, call)],
                           IF ok THEN "ok" ELSE "err"))
    /\ UNCHANGED <<class, recordings, commits, fin, fout>>

\* ------------------------------------------------------------ specification
Next ==
    \/ \E rtcs \in UploadInputs : HandleUpload_Start(rtcs)
    \/ \E i \in Running : InsertRecordings_Commit(i)
    \/ \E i \in Running : CallAdjust(i)
    \/ \E res \in AdjustResults : HandleAdjust_Start(res)
    \/ \E i \in Running : HandleAdjust_Transaction(i)
    \/ \E i \in Running : HandleAdjust_Commit(i)
    \/ \E i \in Running : HandleAdjust_BuildTask(i)
    \/ \E i \in Running : HandleAdjust_ListEvents(i)
    \/ \E i \in Running : HandleAdjust_CreateTask(i)
    \/ \E res \in CompletionResults : HandleTranscodingCompletion_Start(res)
    \/ \E i \in Running : HandleTranscodingCompletion_Update(i)
    \/ \E i \in Running : HandleTranscodingCompletion_Publish(i)

Spec == Init /\ [][Next]_vars

\* the uploads and the completions of transcoding alone, with every duration
\* string
NextTranscoding ==
    \/ \E rtcs \in UploadInputs : HandleUpload_Start(rtcs)
    \/ \E i \in Running : InsertRecordings_Commit(i)
    \/ \E i \in Running : CallAdjust(i)
    \/ \E res \in CompletionResultsWith(FloatStrings) :
          HandleTranscodingCompletion_Start(res)
    \/ \E i \in Running : HandleTranscodingCompletion_Update(i)
    \/ \E i \in Running : HandleTranscodingCompletion_Publish(i)

TranscodingSpec == Init /\ [][NextTranscoding]_vars

\* ------------------------------------------- build_stream on its own inputs
\* the times of the pin events, in nanoseconds since the room was opened
PinTimes == {0, 1999999, 1200000000, 1500000000}
PinEventInputs == {PinEvent(ns, agent) : ns \in PinTimes, agent \in Agents}
PinEventLists == UNION {[1..n -> PinEventInputs] : n \in 0..MaxEvents}

\* the arguments of a call of build_stream
BuildStreamInputs ==
    [recording : {AdjustedRow(RecordingRow(MinigroupId, rtc)) : rtc \in {Rtc1, Rtc2, Rtc3, Rtc4}},
     pin_events : PinEventLists,
     event_room_offset : {0, 600},
     recording_offset : {0, 600}]

InitPin ==
    /\ InitMain
    /\ fin \in {Some(x) : x \in BuildStreamInputs}
    /\ fout = None

BuildStream_Apply ==
    /\ fin # None
    /\ fout = None
    /\ fout' = Some(build_stream(fin[1].recording, fin[1].pin_events,
                                 fin[1].event_room_offset, fin[1].recording_offset))
    /\ UNCHANGED <<class, classes, recordings, run, last, started, issued, commits, fin>>

NextPin == BuildStream_Apply

PinSpec == InitPin /\ [][NextPin]_vars

\* ----------------------- the task of handle_adjust on its own inputs
\* the class's host, the recordings fetched in the transaction, the pin
\* events and the opening time of the modified room
TaskInputs ==
    [host : {None, Some("user1"), Some("user2"), Some("host")},
     recordings : UNION {[1..n -> {AdjustedRow(RecordingRow(MinigroupId, rtc)) :
                                     rtc \in {Rtc1, Rtc2, Rtc3}}] : n \in 1..MaxRecs},
     pin_events : {<<>>, TestPinEvents,
                   <<PinEvent(1999999, Agent2), PinEvent(1200000000, Agent1)>>},
     opened_at : {0, 300}]

InitTask ==
    /\ InitMain
    /\ fin \in {Some(x) : x \in TaskInputs}
    /\ fout = None

\* the streams and the host stream of TqTask::TranscodeMinigroupToHls
BuildTask_Apply ==
    /\ fin # None
    /\ fout = None
    /\ fout' = Some([streams |-> BuildStreams(fin[1].recordings, fin[1].pin_events,
                                              fin[1].opened_at),
                     host_stream_id |-> FindHostStreamId(fin[1].host, fin[1].recordings)])
    /\ UNCHANGED <<class, classes, recordings, run, last, started, issued, commits, fin>>

NextTask == BuildTask_Apply

TaskSpec == InitTask /\ [][NextTask]_vars

\* ---------------------------------- build_adjust_segments on its own inputs
TrackLists == UNION {[1..n -> {Rtc1, Rtc2, Rtc3, Rtc4, Rtc5}] : n \in 0..MaxTracks}

InitAdjustSegments ==
    /\ InitMain
    /\ fin \in {Some(rtcs) : rtcs \in TrackLists}
    /\ fout = None

BuildAdjustSegments_Apply ==
    /\ fin # None
    /\ fout = None
    /\ fout' = Some(build_adjust_segments(fin[1]))
    /\ UNCHANGED <<class, classes, recordings, run, last, started, issued, commits, fin>>

NextAdjustSegments == BuildAdjustSegments_Apply

AdjustSegmentsSpec == InitAdjustSegments /\ [][NextAdjustSegments]_vars

\* ------------------------------- the handlers of MessageHandler (webinars)
\* Messages are handled concurrently; a handler advances from one await to
\* the next, and which of its fallible operations fails is chosen with the step.
WebinarId == "webinar1"

\* payloads of room.upload notices (json_ok: the payload deserialises)
RoomUploads ==
    {[json_ok |-> FALSE],
     [json_ok |-> TRUE, id |-> WebinarId, rtcs |-> <<>>],
     [json_ok |-> TRUE, id |-> WebinarId, rtcs |-> <<Rtc1>>],
     [json_ok |-> TRUE, id |-> WebinarId, rtcs |-> <<Rtc2, Rtc1>>]}

\* the scope in the tags of a notice: no tags, the webinar's, an unknown one
ScopeTags == {None, Some("webinar123"), Some("nowhere")}

\* payloads of room.adjust notices
RoomAdjusts ==
    {[json_ok |-> FALSE], [json_ok |-> TRUE, kind |-> "Error", tags |-> None]}
    \cup {[json_ok |-> TRUE, kind |-> "Success", tags |-> t,
           original_room_id |-> "orig1", modified_room_id |-> "mod1",
           modified_segments |-> <<Seg(0, 3000)>>] : t \in ScopeTags}

\* payloads of task.complete notices
TaskCompletes ==
    {[json_ok |-> FALSE], [json_ok |-> TRUE, kind |-> "Failure", tags |-> None]}
    \cup {[json_ok |-> TRUE, kind |-> "Success", tags |-> t, stream_id |-> "rtc1",
           stream_uri |-> "s3://rtc1.webm", stream_duration |-> 3000] : t \in ScopeTags}

InitMessageHandler ==
    /\ class = [id |-> WebinarId, audience |-> "usr.example.org",
                scope |-> "webinar123", tags |-> None,
                host |-> None,
                event_room_id |-> "event_room1",
                original_event_room_id |-> NULL,
                modified_event_room_id |-> NULL]
    /\ classes = <<>>
    /\ recordings = <<>>
    /\ run = <<>>
    /\ last = NoInv
    /\ started = 0
    /\ issued = {}
    /\ commits = [rtcs \in UploadInputs |-> 0]
    /\ fin = None
    /\ fout = None

\* the record of the handler that handle_event runs on message msg: what it
\* returned, the operation that failed ("none" if none did), the calls that
\* were answered, its open transaction and what it holds
Handled(op, arg, pc, msg) ==
    [op |-> op, arg |-> arg, pc |-> pc, ret |-> "pending", failed |-> "none",
     calls |-> <<>>, msg |-> msg, txn |-> NoTxn, loc |-> NoLoc]

\* the handler returns r after the operation failed did not succeed
ReturnedErr(inv, failed) == [Returned(inv, "err") EXCEPT !.failed = failed]

\* a line of the log: who wrote it while handling which message, and its level
LogLine(msg, by, level) == [msg |-> msg, by |-> by, level |-> level]

\* what handle_event writes when the handler it awaited has returned: an
\* error line for a failure, nothing otherwise
Logged(inv) ==
    IF inv.pc = "done" /\ inv.ret = "err"
    THEN <<LogLine(inv.msg, "handle_event", "error")>>
    ELSE <<>>

\* the handlers handle_event has called, in order: for which message, which
\* handler, and what it returned ("pending" while it runs)
Called(inv) == [msg |-> inv.msg, handler |-> inv.op, ret |-> inv.ret]

\* the history once the handler with record inv has made its step
Completed(inv) ==
    [k \in 1..Len(fin) |-> IF fin[k].msg = inv.msg THEN Called(inv) ELSE fin[k]]

\* a plausible slip: a handler that failed is run once more by handle_event
Handle_Retried(i, inv, lines) ==
    /\ Step(i, inv)
    /\ fout' = fout \o lines \o Logged(inv) \o Logged(inv)
    /\ fin' = IF inv.pc = "done" /\ inv.ret = "err"
              THEN Append(Completed(inv), Called(inv))
              ELSE Completed(inv)
    /\ UNCHANGED <<classes, commits>>

\* the handler of invocation i goes on to record inv, having written lines to
\* the log itself; when it returns, handle_event logs a failure and completes
Handle(i, inv, lines) ==
    /\ Step(i, inv)
    /\ fout' = fout \o lines \o Logged(inv)
    /\ fin' = Completed(inv)
    /\ UNCHANGED <<classes, commits>>

\* handle_event calls the handler of the label of the next message, which
\* runs up to its first await, or to its return: record inv
Dispatch(inv) ==
    /\ CanStart
    /\ Enter(inv)
    /\ fin' = Append(fin, Called(inv))
    /\ fout' = fout \o Logged(inv)
    /\ UNCHANGED <<class, classes, recordings, commits>>

\* the labels handle_event has no handler for: another label, or none
UnexpectedLabels == {None, Some("room.enter")}

\* handle_event on a message with such a label: a debug line, Ok(())
MessageHandler_unexpected(label) ==
    /\ CanStart
    /\ Enter(Returned(Handled("unexpected", label, "done", started + 1), "ok"))
    /\ fout' = Append(fout, LogLine(started + 1, "handle_event", "debug"))
    /\ UNCHANGED <<class, classes, recordings, commits, fin>>

\* the responses handle_response is given (json_ok: the payload converts to
\* a JSON value)
IncomingResponses == {[json_ok |-> FALSE], [json_ok |-> TRUE]}

\* MessageHandler::handle_response up to the await on the request dispatcher:
\* a response that does not convert is logged, and the method returns
MessageHandler_handle_response(data) ==
    LET inv == Handled("handle_response", data, "response_commit", started + 1)
    IN  /\ CanStart
        /\ Enter(IF data.json_ok THEN inv
                 ELSE [Returned(inv, "ok") EXCEPT !.failed = "convert"])
        /\ fout' = IF data.json_ok THEN fout
                   ELSE Append(fout, LogLine(started + 1, "handle_response", "error"))
        /\ UNCHANGED <<class, classes, recordings, commits, fin>>

\* Dispatcher::response is answered: a response the dispatcher refuses is
\* logged
MessageHandler_handle_response_Commit(i) ==
    /\ run[i].pc = "response_commit"
    /\ \E ok \in BOOLEAN :
        /\ Step(i, [Returned(run[i], "ok") EXCEPT
                      !.failed = IF ok THEN "none" ELSE "response"])
        /\ fout' = IF ok THEN fout
                   ELSE Append(fout, LogLine(run[i].msg, "handle_response", "error"))
    /\ UNCHANGED <<class, classes, recordings, commits, fin>>

\* WebinarReadByScopeQuery: the webinar of the audience with that scope
WebinarByScope(scope) == IF scope = class.scope THEN Some(class) ELSE None

\* the recordings of the webinar
WebinarRows == {k \in 1..Len(recordings) : recordings[k].class_id = class.id}

\* a plausible slip: the body that is commented out in handle_close, which
\* publishes webinar.stop for the webinar of the audience
MessageHandler_handle_close_Stop ==
    Dispatch(Returned([Handled("handle_close", None, "done", started + 1) EXCEPT
                         !.calls = <<[method |-> "publish", label |-> "webinar.stop",
                                      kind |-> "broadcast",
                                      path |-> <<"audiences", class.audience, "events">>,
                                      payload |-> [id |-> class.id, scope |-> class.scope,
                                                   tags |-> class.tags],
                                      ok |-> TRUE]>>], "ok"))

\* MessageHandler::handle_close: a stub, the notice is not read
MessageHandler_handle_close ==
    Dispatch(Returned(Handled("handle_close", None, "done", started + 1), "ok"))

\* MessageHandler::handle_upload up to get_conn: the payload is deserialised
\* and its first track taken
MessageHandler_handle_upload(payload) ==
    LET inv == Handled("handle_upload", payload, "upload_insert", started + 1)
    IN  Dispatch(IF ~payload.json_ok \/ Len(payload.rtcs) = 0
                 THEN ReturnedErr(inv, "none") ELSE inv)

\* get_conn and RecordingInsertQuery on the connection: the row of the first
\* track is inserted and committed; then adjust_room is sent
MessageHandler_handle_upload_Insert(i) ==
    /\ run[i].pc = "upload_insert"
    /\ \E fail \in {"none", "get_conn", "insert"} :
        LET row == RecordingRow(run[i].arg.id, run[i].arg.rtcs[1])
        IN  IF fail = "none"
            THEN /\ recordings' = Append(recordings, row)
                 /\ Handle(i, [run[i] EXCEPT !.pc = "upload_adjust_room",
                                             !.loc.recordings = <<row>>], <<>>)
            ELSE /\ recordings' = recordings
                 /\ Handle(i, ReturnedErr(run[i], fail), <<>>)
    /\ class' = class

\* adjust_room(&recording, 0) is answered
MessageHandler_handle_upload_AdjustRoom(i) ==
    /\ run[i].pc = "upload_adjust_room"
    /\ \E ok \in BOOLEAN :
        LET call == [method |-> "adjust_room",
                     recording |-> run[i].loc.recordings[1].rtc_id,
                     offset |-> 0, ok |-> ok]
            inv == [run[i] EXCEPT !.calls = Append(@, call)]
        IN  Handle(i, IF ok THEN Returned(inv, "ok") ELSE ReturnedErr(inv, "adjust_room"),
                   <<>>)
    /\ UNCHANGED <<class, recordings>>

\* MessageHandler::handle_adjust up to get_conn: the payload is deserialised,
\* an Error result and tags without a string scope end it
MessageHandler_handle_adjust(payload) ==
    LET inv == Handled("handle_adjust", payload, "adjust_read_webinar", started + 1)
    IN  Dispatch(IF ~payload.json_ok \/ payload.kind = "Error" \/ payload.tags = None
                 THEN ReturnedErr(inv, "none") ELSE inv)

\* a plausible slip: the webinar taken by audience alone, whatever the scope
MessageHandler_handle_adjust_ReadAnyScope(i) ==
    /\ run[i].pc = "adjust_read_webinar"
    /\ \E fail \in {"none", "get_conn", "read_webinar"} :
        Handle(i, IF fail = "none"
                  THEN [run[i] EXCEPT !.pc = "adjust_transaction"]
                  ELSE ReturnedErr(run[i], fail), <<>>)
    /\ UNCHANGED <<class, recordings>>

\* get_conn and WebinarReadByScopeQuery: a webinar that is not found ends the
\* handler
MessageHandler_handle_adjust_Read(i) ==
    /\ run[i].pc = "adjust_read_webinar"
    /\ \E fail \in {"none", "get_conn", "read_webinar"} :
        Handle(i, IF fail = "none" /\ WebinarByScope(run[i].arg.tags[1]) # None
                  THEN [run[i] EXCEPT !.pc = "adjust_transaction"]
                  ELSE IF fail = "none" THEN ReturnedErr(run[i], "read_webinar")
                  ELSE ReturnedErr(run[i], fail), <<>>)
    /\ UNCHANGED <<class, recordings>>

\* begin, WebinarUpdateQuery and AdjustUpdateQuery in the transaction: the
\* class row and the recordings of the webinar are written and locked, and the
\* update returns a recording; none to return is a failure of the query
MessageHandler_handle_adjust_Transaction(i) ==
    /\ run[i].pc = "adjust_transaction"
    /\ ~ClassLockedByOther(i)
    /\ RowsLockedByOther(i) \cap WebinarRows = {}
    /\ \E fail \in {"none", "begin", "update_class", "update_recording"} :
        LET first == CHOOSE k \in WebinarRows : \A m \in WebinarRows : k <= m
        IN  Handle(i, IF fail = "none" /\ WebinarRows # {}
                      THEN [run[i] EXCEPT
                              !.txn.class = Some(<<run[i].arg.original_room_id,
                                                   run[i].arg.modified_room_id>>),
                              !.txn.locked = WebinarRows,
                              !.loc.recordings = <<recordings[first]>>,
                              !.pc = "adjust_commit"]
                      ELSE IF fail = "none" THEN ReturnedErr(run[i], "update_recording")
                      ELSE ReturnedErr(run[i], fail), <<>>)
    /\ UNCHANGED <<class, recordings>>

\* txn.commit(): the room ids of the class and the adjusted recordings become
\* visible; then create_task is sent
MessageHandler_handle_adjust_Commit(i) ==
    /\ run[i].pc = "adjust_commit"
    /\ \E ok \in BOOLEAN :
        IF ok
        THEN /\ class' = [class EXCEPT
                            !.original_event_room_id = run[i].txn.class[1][1],
                            !.modified_event_room_id = run[i].txn.class[1][2]]
             /\ recordings' = [k \in 1..Len(recordings) |->
                                 IF k \in run[i].txn.locked
                                 THEN [recordings[k] EXCEPT
                                         !.adjusted_at = Now,
                                         !.modified_segments =
                                             Some(run[i].arg.modified_segments)]
                                 ELSE recordings[k]]
             /\ Handle(i, [run[i] EXCEPT !.txn = NoTxn, !.pc = "adjust_create_task"],
                       <<>>)
        ELSE /\ UNCHANGED <<class, recordings>>
             /\ Handle(i, ReturnedErr(run[i], "commit"), <<>>)

\* create_task for the recording the update returned is answered
MessageHandler_handle_adjust_CreateTask(i) ==
    /\ run[i].pc = "adjust_create_task"
    /\ \E ok \in BOOLEAN :
        LET call == [method |-> "create_task", class_id |-> class.id,
                     stream_id |-> run[i].loc.recordings[1].rtc_id,
                     stream_uri |-> run[i].loc.recordings[1].stream_uri,
                     room_id |-> run[i].arg.modified_room_id,
                     segments |-> run[i].arg.modified_segments,
                     ok |-> ok]
            inv == [run[i] EXCEPT !.calls = Append(@, call)]
        IN  Handle(i, IF ok THEN Returned(inv, "ok") ELSE ReturnedErr(inv, "create_task"),
                   <<>>)
    /\ UNCHANGED <<class, recordings>>

\* MessageHandler::handle_transcoding up to get_conn: the payload is
\* deserialised, a Failure result and tags without a string scope end it
MessageHandler_handle_transcoding(payload) ==
    LET inv == Handled("handle_transcoding", payload, "transcoding_read_webinar",
                       started + 1)
    IN  Dispatch(IF ~payload.json_ok \/ payload.kind = "Failure" \/ payload.tags = None
                 THEN ReturnedErr(inv, "none") ELSE inv)

\* get_conn and WebinarReadByScopeQuery
MessageHandler_handle_transcoding_Read(i) ==
    /\ run[i].pc = "transcoding_read_webinar"
    /\ \E fail \in {"none", "get_conn", "read_webinar"} :
        Handle(i, IF fail = "none" /\ WebinarByScope(run[i].arg.tags[1]) # None
                  THEN [run[i] EXCEPT !.pc = "transcoding_update"]
                  ELSE IF fail = "none" THEN ReturnedErr(run[i], "read_webinar")
                  ELSE ReturnedErr(run[i], fail), <<>>)
    /\ UNCHANGED <<class, recordings>>

\* TranscodingUpdateQuery on the connection: the recordings of the webinar
\* are marked as transcoded
MessageHandler_handle_transcoding_Update(i) ==
    /\ run[i].pc = "transcoding_update"
    /\ RowsLockedByOther(i) \cap WebinarRows = {}
    /\ \E ok \in BOOLEAN :
        IF ok
        THEN /\ recordings' = [k \in 1..Len(recordings) |->
                                 IF k \in WebinarRows
                                 THEN TranscodedRow(recordings[k])
                                 ELSE recordings[k]]
             /\ Handle(i, [run[i] EXCEPT !.pc = "transcoding_publish"], <<>>)
        ELSE /\ recordings' = recordings
             /\ Handle(i, ReturnedErr(run[i], "update_recording"), <<>>)
    /\ class' = class

\* the update is answered and the webinar.ready event is published; a failure
\* to publish is logged by the handler, which returns Ok(()) all the same
MessageHandler_handle_transcoding_Publish(i) ==
    /\ run[i].pc = "transcoding_publish"
    /\ \E ok \in BOOLEAN :
        LET call == [method |-> "publish", label |-> "webinar.ready",
                     kind |-> "broadcast",
                     path |-> <<"audiences", class.audience, "events">>,
                     payload |-> [id |-> class.id, scope |-> class.scope,
                                  tags |-> class.tags, status |-> "success",
                                  stream_id |-> run[i].arg.stream_id,
                                  stream_uri |-> run[i].arg.stream_uri,
                                  stream_duration |-> run[i].arg.stream_duration],
                     ok |-> ok]
            published == [Returned([run[i] EXCEPT !.calls = Append(@, call)], "ok")
                            EXCEPT !.failed = IF ok THEN "none" ELSE "publish"]
        IN  Handle(i, published,
                   IF ok THEN <<>>
                   ELSE <<LogLine(run[i].msg, "handle_transcoding", "error")>>)
    /\ UNCHANGED <<class, recordings>>

\* what MessageHandler does with an incoming message: handle_event calls the
\* handler of the notice's label, the handlers go on from await to await, and
\* handle_response takes a response
NextMessageHandler ==
    \/ MessageHandler_handle_close
    \/ \E payload \in RoomUploads : MessageHandler_handle_upload(payload)
    \/ \E i \in Running : MessageHandler_handle_upload_Insert(i)
    \/ \E i \in Running : MessageHandler_handle_upload_AdjustRoom(i)
    \/ \E payload \in RoomAdjusts : MessageHandler_handle_adjust(payload)
    \/ \E i \in Running : MessageHandler_handle_adjust_Read(i)
    \/ \E i \in Running : MessageHandler_handle_adjust_Transaction(i)
    \/ \E i \in Running : MessageHandler_handle_adjust_Commit(i)
    \/ \E i \in Running : MessageHandler_handle_adjust_CreateTask(i)
    \/ \E payload \in TaskCompletes : MessageHandler_handle_transcoding(payload)
    \/ \E i \in Running : MessageHandler_handle_transcoding_Read(i)
    \/ \E i \in Running : MessageHandler_handle_transcoding_Update(i)
    \/ \E i \in Running : MessageHandler_handle_transcoding_Publish(i)
    \/ \E label \in UnexpectedLabels : MessageHandler_unexpected(label)
    \/ \E data \in IncomingResponses : MessageHandler_handle_response(data)
    \/ \E i \in Running : MessageHandler_handle_response_Commit(i)

MessageHandlerSpec == InitMessageHandler /\ [][NextMessageHandler]_vars

\* ------------------------------------------ class creation (do_create)
\* the accounts that send requests, and what TestAuthz allows
Accounts == {"user1", "user2"}
Allowed ==
    {<<"user1", <<"classrooms">>, "create">>,
     <<"user1", <<"classrooms", MinigroupId>>, "update">>}

\* authz().authorize(audience, account, object, action)
Authorize(account, object, action) == <<account, object, action>> \in Allowed

\* MinigroupCreatePayload
CreatePayload(time, locked_chat) ==
    [scope |-> "scope1", audience |-> "usr.example.org", time |-> time,
     tags |-> None, reserve |-> Some(10), locked_chat |-> locked_chat]

CreatePayloads ==
    {CreatePayload(None, TRUE),
     CreatePayload(Some(<<Included(10), Excluded(50)>>), TRUE),
     CreatePayload(None, FALSE)}

\* the ids the services may return for a created room
EventRoomIds == {"event_room2", "event_room3"}
ConferenceRoomIds == {"conference_room2", "conference_room3"}

\* the future of a create_room call: not polled yet, waiting for the
\* response, resolved to an error, resolved to the id of the room
Unsent == [st |-> "unsent", id |-> NULL]
Pending == [st |-> "pending", id |-> NULL]
Failed == [st |-> "failed", id |-> NULL]
Ready(id) == [st |-> "ready", id |-> id]

\* the time of the conference room: from the start of the class, else from now
ConferenceTime(time) ==
    IF time # None /\ time[1][1][1] \in {"Included", "Excluded"}
    THEN <<Included(time[1][1][2]), <<"Unbounded">>>>
    ELSE <<Included(Now), <<"Unbounded">>>>

CreateConferenceRoomCall(time, audience, policy, reserve, tags) ==
    [method |-> "conference.create_room", time |-> time, audience |-> audience,
     policy |-> policy, reserve |-> reserve, tags |-> tags]
CreateEventRoomCall(time, audience, preserve_history, tags) ==
    [method |-> "event.create_room", time |-> time, audience |-> audience,
     preserve_history |-> preserve_history, tags |-> tags]

\* one more API request may enter
CanRequest == started < MaxReq /\ Len(run) < MaxReqConc

\* a request that entered do_create
NewRequest(op, account, body) ==
    [op |-> op, account |-> account, arg |-> body, pc |-> "start", ret |-> "pending",
     calls |-> <<>>, event_room |-> Unsent, conference_room |-> Unsent,
     inserted |-> None]

\* the request is answered with r
Responded(req, r) == [req EXCEPT !.pc = "done", !.ret = r]

\* a plausible slip: the rooms created before the account is authorized
DoCreate_StartAuthorizeLate(account, body) ==
    /\ CanRequest
    /\ LET req == NewRequest("do_create", account, body)
           event == CreateEventRoomCall(<<Included(Now), <<"Unbounded">>>>,
                                        body.audience, Some(TRUE), body.tags)
           conference == CreateConferenceRoomCall(ConferenceTime(body.time), body.audience,
                                                  Some("owned"), body.reserve, body.tags)
       IN  Enter([req EXCEPT !.calls = <<event, conference>>,
                             !.event_room = Pending, !.conference_room = Pending,
                             !.pc = "join"])
    /\ UNCHANGED <<class, classes, recordings, commits, fin, fout>>

\* authorize, then the first poll of event_fut.try_join(conference_fut): the
\* event request is sent, then the conference request; a request that cannot
\* be sent fails the join at once, before the other future is polled again
DoCreate_Start(account, body) ==
    /\ CanRequest
    /\ LET req == NewRequest("do_create", account, body)
           event == CreateEventRoomCall(<<Included(Now), <<"Unbounded">>>>,
                                        body.audience, Some(TRUE), body.tags)
           conference == CreateConferenceRoomCall(ConferenceTime(body.time), body.audience,
                                                  Some("owned"), body.reserve, body.tags)
       IN  IF ~Authorize(account, <<"classrooms">>, "create")
           THEN Enter(Responded(req, "err"))
           ELSE \E event_sent, conference_sent \in BOOLEAN :
                  Enter(IF ~event_sent
                        THEN Responded([req EXCEPT !.event_room = Failed], "err")
                        ELSE IF ~conference_sent
                        THEN Responded([req EXCEPT !.calls = <<event>>,
                                                   !.event_room = Pending,
                                                   !.conference_room = Failed], "err")
                        ELSE [req EXCEPT !.calls = <<event, conference>>,
                                         !.event_room = Pending,
                                         !.conference_room = Pending,
                                         !.pc = "join"])
    /\ UNCHANGED <<class, classes, recordings, commits, fin, fout>>

\* a plausible slip: only the failure of the event room ends the join
Joined_ConferenceFailureIgnored(req) ==
    IF req.event_room = Failed THEN Responded(req, "err")
    ELSE IF Pending \in {req.event_room, req.conference_room} THEN req
    ELSE [req EXCEPT !.pc = "insert"]

\* try_join once a future has resolved to res: an error ends the join (the
\* other future is dropped), both rooms end it with their ids
Joined(req) ==
    IF Failed \in {req.event_room, req.conference_room} THEN Responded(req, "err")
    ELSE IF Pending \in {req.event_room, req.conference_room} THEN req
    ELSE [req EXCEPT !.pc = "insert"]

\* the event service answers room.create (or the call times out)
DoCreate_EventResponse(i) ==
    /\ run[i].op = "do_create"
    /\ run[i].pc = "join"
    /\ run[i].event_room = Pending
    /\ \E res \in {Ready(id) : id \in EventRoomIds} \cup {Failed} :
         Step(i, Joined([run[i] EXCEPT !.event_room = res]))
    /\ UNCHANGED <<class, classes, recordings, commits, fin, fout>>

\* the conference service answers room.create (or the call times out)
DoCreate_ConferenceResponse(i) ==
    /\ run[i].op = "do_create"
    /\ run[i].pc = "join"
    /\ run[i].conference_room = Pending
    /\ \E res \in {Ready(id) : id \in ConferenceRoomIds} \cup {Failed} :
         Step(i, Joined([run[i] EXCEPT !.conference_room = res]))
    /\ UNCHANGED <<class, classes, recordings, commits, fin, fout>>

\* MinigroupInsertQuery: the row of the new class
ClassRow(id, body, conference_room_id, event_room_id) ==
    [id |-> id, kind |-> "minigroup", scope |-> body.scope, audience |-> body.audience,
     time |-> IF body.time = None THEN <<<<"Unbounded">>, <<"Unbounded">>>>
              ELSE body.time[1],
     tags |-> body.tags, reserve |-> body.reserve,
     conference_room_id |-> conference_room_id, event_room_id |-> event_room_id,
     original_event_room_id |-> NULL, modified_event_room_id |-> NULL]

\* services::update_classroom_id: the rooms are told the id of the class
UpdateClassroomIdCalls(row) ==
    <<[method |-> "event.update_room", id |-> row.event_room_id, classroom_id |-> row.id],
      [method |-> "conference.update_room", id |-> row.conference_room_id,
       classroom_id |-> row.id]>>

\* get_conn and MinigroupInsertQuery on the connection: the row is inserted
\* and committed
DoCreate_Insert(i) ==
    /\ run[i].op = "do_create"
    /\ run[i].pc = "insert"
    /\ \E inserted \in BOOLEAN :
         LET row == ClassRow(Len(classes) + 1, run[i].arg,
                             run[i].conference_room.id, run[i].event_room.id)
         IN  IF ~inserted
             THEN /\ classes' = classes
                  /\ Step(i, Responded(run[i], "err"))
             ELSE /\ classes' = Append(classes, row)
                  /\ Step(i, [run[i] EXCEPT !.inserted = Some(row.id),
                                            !.pc = "inserted"])
    /\ UNCHANGED <<class, recordings, commits, fin, fout>>

\* the request has the inserted row: when the body asks for it,
\* event_client().lock_chat(event_room_id) is sent and awaited; when it does
\* not, or the request cannot be sent (which is logged only), the requests of
\* update_classroom_id are sent and awaited
DoCreate_LockChat(i) ==
    /\ run[i].op = "do_create"
    /\ run[i].pc = "inserted"
    /\ \E sent \in BOOLEAN :
         LET row == classes[run[i].inserted[1]]
             lock == [method |-> "event.lock_chat", room_id |-> run[i].event_room.id]
         IN  Step(i, IF run[i].arg.locked_chat /\ sent
                     THEN [run[i] EXCEPT !.calls = Append(@, lock), !.pc = "lock_chat"]
                     ELSE [run[i] EXCEPT
                             !.calls = @ \o UpdateClassroomIdCalls(row),
                             !.pc = "update_classroom_id"])
    /\ UNCHANGED <<class, classes, recordings, commits, fin, fout>>

\* lock_chat is answered, or times out: a failure is logged only, so that
\* either way the requests of update_classroom_id are sent and awaited
DoCreate_LockChatResponse(i) ==
    /\ run[i].op = "do_create"
    /\ run[i].pc = "lock_chat"
    /\ LET row == classes[run[i].inserted[1]]
       IN  Step(i, [run[i] EXCEPT !.calls = @ \o UpdateClassroomIdCalls(row),
                                  !.pc = "update_classroom_id"])
    /\ UNCHANGED <<class, classes, recordings, commits, fin, fout>>

\* update_classroom_id is answered: a failure fails the request, else the
\* response carries the row
DoCreate_UpdateClassroomId(i) ==
    /\ run[i].op = "do_create"
    /\ run[i].pc = "update_classroom_id"
    /\ \E updated \in BOOLEAN :
         Step(i, Responded(run[i], IF updated THEN "ok" ELSE "err"))
    /\ UNCHANGED <<class, classes, recordings, commits, fin, fout>>

\* ------------------------------------- the other queries that write table class
\* Row 0 of the table is the row held in class, row k the k-th of classes.
ClassAt(k) == IF k = 0 THEN class ELSE classes[k]

\* row k of the table becomes row
WriteClass(k, row) ==
    /\ class' = IF k = 0 THEN row ELSE class
    /\ classes' = [j \in 1..Len(classes) |-> IF j = k THEN row ELSE classes[j]]

\* a query that was executed on its own, and what it returned
Executed(query, ok) ==
    [op |-> query, pc |-> "done", ret |-> IF ok THEN "ok" ELSE "err", calls |-> <<>>]

\* the times and the reserve an update may carry
UpdateTimes == {<<Included(20), Excluded(70)>>}
UpdateReserves == {20}

\* P2PInsertQuery::execute: a row of kind p2p with no bounds of time, the
\* tags and the two room ids it was given
P2PRow(id, scope, audience, tags, conference_room_id, event_room_id) ==
    [id |-> id, kind |-> "p2p", scope |-> scope, audience |-> audience,
     time |-> <<<<"Unbounded">>, <<"Unbounded">>>>,
     tags |-> tags, reserve |-> None,
     conference_room_id |-> conference_room_id, event_room_id |-> event_room_id,
     original_event_room_id |-> NULL, modified_event_room_id |-> NULL]

P2PInsertQuery_execute ==
    /\ \E ok \in BOOLEAN :
         LET row == P2PRow(Len(classes) + 1, "scope2", "usr.example.org", None,
                           "conference_room4", "event_room4")
         IN  /\ Enter(Executed("P2PInsertQuery", ok))
             /\ classes' = IF ok THEN Append(classes, row) ELSE classes
    /\ UNCHANGED <<class, recordings, commits, fin, fout>>

\* TimeUpdateQuery::execute: UPDATE class SET the time and the reserve that
\* were given WHERE id; with neither there is nothing to SET and the
\* statement is refused
TimeUpdateQuery_execute(k, time, reserve) ==
    /\ \E ok \in BOOLEAN :
         LET done == ok /\ (time # None \/ reserve # None)
             row == [ClassAt(k) EXCEPT
                        !.time = IF time = None THEN @ ELSE time[1],
                        !.reserve = IF reserve = None THEN @ ELSE reserve]
         IN  /\ Enter(Executed("TimeUpdateQuery", done))
             /\ WriteClass(k, IF done THEN row ELSE ClassAt(k))
    /\ UNCHANGED <<recordings, commits, fin, fout>>

\* MinigroupTimeUpdateQuery::execute: UPDATE class SET time WHERE id
MinigroupTimeUpdateQuery_execute(k, time) ==
    /\ \E ok \in BOOLEAN :
         /\ Enter(Executed("MinigroupTimeUpdateQuery", ok))
         /\ WriteClass(k, IF ok THEN [ClassAt(k) EXCEPT !.time = time] ELSE ClassAt(k))
    /\ UNCHANGED <<recordings, commits, fin, fout>>

\* what NOW() may be when a class is closed: the start of a created class, the
\* start of an updated one, and after every end
CloseTimes == {10, 20, 100}

\* the range with no point in it, which is how a range is stored whose bounds
\* are equal and not both included
EmptyRange == <<"empty">>

\* LOWER(time) and UPPER(time): NULL for a bound that is not there and for the
\* empty range
RangeLower(time) ==
    IF time = EmptyRange \/ time[1] = <<"Unbounded">> THEN None ELSE Some(time[1][2])
RangeUpper(time) ==
    IF time = EmptyRange \/ time[2] = <<"Unbounded">> THEN None ELSE Some(time[2][2])

\* LEAST(upper, now), which passes a NULL over
Least(upper, now) == IF upper = None \/ now < upper[1] THEN now ELSE upper[1]

\* TSTZRANGE(lower, upper) of an upper bound that is there: the start
\* included, the end excluded, and the empty range when they are equal
TstzRange(lower, upper) ==
    IF lower = None THEN <<<<"Unbounded">>, Excluded(upper)>>
    ELSE IF lower[1] = upper THEN EmptyRange
    ELSE <<Included(lower[1]), Excluded(upper)>>

\* TSTZRANGE(LOWER(time), LEAST(UPPER(time), NOW()))
ClosedTime(time, now) == TstzRange(RangeLower(time), Least(RangeUpper(time), now))

\* no range ends before it starts: TSTZRANGE raises an error for such bounds
IsRange(lower, upper) == lower = None \/ lower[1] <= upper

\* RoomCloseQuery::execute: the time of the class is cut at NOW(); a class
\* that has not started cannot be cut, the statement fails, and one cut at
\* its start is left with the empty range
RoomCloseQuery_execute(k, now) ==
    /\ \E ok \in BOOLEAN :
         LET time == ClassAt(k).time
             done == ok /\ IsRange(RangeLower(time), Least(RangeUpper(time), now))
         IN  /\ Enter(Executed("RoomCloseQuery", done))
             /\ WriteClass(k, IF done
                              THEN [ClassAt(k) EXCEPT !.time = ClosedTime(time, now)]
                              ELSE ClassAt(k))
    /\ UNCHANGED <<recordings, commits, fin, fout>>

NextCreate ==
    \/ \E account \in Accounts, body \in CreatePayloads : DoCreate_Start(account, body)
    \/ \E i \in Running : DoCreate_EventResponse(i)
    \/ \E i \in Running : DoCreate_ConferenceResponse(i)
    \/ \E i \in Running : DoCreate_Insert(i)
    \/ \E i \in Running : DoCreate_LockChat(i)
    \/ \E i \in Running : DoCreate_LockChatResponse(i)
    \/ \E i \in Running : DoCreate_UpdateClassroomId(i)
    \/ started < MaxReq /\ P2PInsertQuery_execute
    \/ started < MaxReq /\ \E k \in 1..Len(classes) :
         \E time \in {None} \cup {Some(t) : t \in UpdateTimes},
            reserve \in {None} \cup {Some(r) : r \in UpdateReserves} :
           TimeUpdateQuery_execute(k, time, reserve)
    \/ started < MaxReq /\ \E k \in 1..Len(classes), time \in UpdateTimes :
         MinigroupTimeUpdateQuery_execute(k, time)
    \/ started < MaxReq /\ \E k \in 1..Len(classes), now \in CloseTimes :
         RoomCloseQuery_execute(k, now)

CreateSpec == Init /\ [][NextCreate]_vars

\* ------------------------------------------------- MqttEventClient (event.rs)
\* the durations a client may be constructed with (MqttEventClient::new)
Durations == {1, 2}
ClientTimeouts == {None} \cup {Some(dur) : dur \in Durations}

\* the functions of trait EventClient and the method build_reqp is given
ClientMethods == {"read_room", "create_room", "update_room", "adjust_room", "lock_chat"}

RequestMethod(fn) ==
    CASE fn = "read_room" -> "room.read"
      [] fn = "create_room" -> "room.create"
      [] fn = "update_room" -> "room.create"
      [] fn = "adjust_room" -> "room.adjust"
      [] fn = "lock_chat" -> "event.create"

\* what dispatcher.request resolves to: an error, or a response with a status
\* and possibly an id in its payload
Responses ==
    {[ok |-> FALSE, status |-> 200, id |-> None]} \cup
    [ok : {TRUE}, status : {200, 201, 202}, id : {None, Some("event_room2")}]

\* the value the function returns for a response of the service
ClientResult(fn, res) ==
    IF ~res.ok THEN "PayloadError"
    ELSE CASE fn = "read_room" -> "Ok"
           [] fn = "create_room" -> IF res.id # None THEN "Ok" ELSE "PayloadError"
           [] fn = "update_room" -> IF res.status = 200 THEN "Ok" ELSE "PayloadError"
           [] fn = "adjust_room" -> IF res.status = 202 THEN "Ok" ELSE "PayloadError"
           [] fn = "lock_chat" -> IF res.status = 201 THEN "Ok" ELSE "PayloadError"

\* the clock ticks a call may wait for when nothing bounds it
MaxTicks == 3

InitClient ==
    /\ InitMain
    /\ fin \in {[timeout |-> t] : t \in ClientTimeouts}
    /\ fout = None

\* a call that awaits its request
Call(fn) ==
    [op |-> fn, pc |-> "await", ret |-> "pending", elapsed |-> 0,
     calls |-> <<[method |-> RequestMethod(fn)]>>]

\* a function of the client is called: build_reqp may fail (no response
\* topic), else the request is published and awaited
Client_Call(fn) ==
    /\ CanStart
    /\ \E built \in BOOLEAN :
         Enter(IF built THEN Call(fn)
               ELSE [Call(fn) EXCEPT !.pc = "done", !.ret = "AgentError", !.calls = <<>>])
    /\ UNCHANGED <<class, classes, recordings, commits, fin, fout>>

\* the request resolves before the timer (the timeout future polls it first)
Client_Response(i) ==
    /\ run[i].op \in ClientMethods
    /\ run[i].pc = "await"
    /\ \E res \in Responses :
         Step(i, [run[i] EXCEPT !.pc = "done", !.ret = ClientResult(run[i].op, res)])
    /\ UNCHANGED <<class, classes, recordings, commits, fin, fout>>

\* a plausible slip: the request is published again when the timer fires
Client_TimeoutResend(i) ==
    /\ run[i].op \in ClientMethods
    /\ run[i].pc = "await"
    /\ fin.timeout # None
    /\ run[i].elapsed = fin.timeout[1]
    /\ Len(run[i].calls) < 2
    /\ Step(i, [run[i] EXCEPT !.elapsed = 0,
                              !.calls = @ \o <<[method |-> RequestMethod(run[i].op)]>>])
    /\ UNCHANGED <<class, classes, recordings, commits, fin, fout>>

\* async_std::future::timeout(dur, request): the timer fires after dur
Client_Timeout(i) ==
    /\ run[i].op \in ClientMethods
    /\ run[i].pc = "await"
    /\ fin.timeout # None
    /\ run[i].elapsed = fin.timeout[1]
    /\ Step(i, [run[i] EXCEPT !.pc = "done", !.ret = "TimeoutError"])
    /\ UNCHANGED <<class, classes, recordings, commits, fin, fout>>

\* how long a call may still be awaited: up to the timer when the client has
\* a timeout, else without a bound of its own
TickLimit == IF fin.timeout # None THEN fin.timeout[1] ELSE MaxTicks

\* time passes for every call that is awaited
Client_Tick ==
    /\ run # <<>>
    /\ \A i \in Running : run[i].elapsed < TickLimit
    /\ run' = [i \in Running |-> [run[i] EXCEPT !.elapsed = @ + 1]]
    /\ UNCHANGED <<class, classes, recordings, last, started, issued, commits, fin, fout>>

NextClient ==
    \/ \E fn \in ClientMethods : Client_Call(fn)
    \/ \E i \in Running : Client_Response(i)
    \/ \E i \in Running : Client_Timeout(i)
    \/ Client_Tick

ClientSpec == InitClient /\ [][NextClient]_vars

\* ------------------------------------------------- session recreation (recreate)
\* the class row with the columns recreate writes
InitRecreate ==
    /\ class = [id |-> MinigroupId, audience |-> "usr.example.org",
                scope |-> "minigroup123", tags |-> None,
                host |-> Some("user1"), reserve |-> Some(10),
                time |-> <<Included(10), Excluded(50)>>,
                event_room_id |-> "event_room1",
                conference_room_id |-> "conference_room1",
                original_event_room_id |-> NULL,
                modified_event_room_id |-> NULL]
    /\ classes = <<>>
    /\ recordings = <<>>
    /\ run = <<>>
    /\ last = NoInv
    /\ started = 0
    /\ issued = {}
    /\ commits = [rtcs \in UploadInputs |-> 0]
    /\ fin = None
    /\ fout = None

\* WebinarRecreate bodies: the new time, or none
RecreateBodies == {[time |-> None], [time |-> Some(<<Included(60), Excluded(90)>>)]}

\* the ids a request may name: the class and one that no class has
RequestedIds == {MinigroupId, "unknown_id"}

\* a request that entered recreate; webinar is the class row find gave it
RecreateRequest(account, id, body) ==
    [op |-> "recreate", account |-> account, id |-> id, arg |-> body, pc |-> "start",
     ret |-> "pending", calls |-> <<>>, event_room |-> Unsent,
     conference_room |-> Unsent, txn |-> NoTxn, committed |-> FALSE,
     webinar |-> None]

\* body.time.unwrap_or((Unbounded, Unbounded))
RecreateTime(body) ==
    IF body.time = None THEN <<<<"Unbounded">>, <<"Unbounded">>>> ELSE body.time[1]

\* what the handler reads of the row it found: webinar.audience(),
\* webinar.reserve() and webinar.tags()
FoundWebinar(row) ==
    [id |-> row.id, audience |-> row.audience, reserve |-> row.reserve,
     tags |-> row.tags]

\* the body, the token and the id, then find: the class row is read and kept,
\* and authorize is awaited
Recreate_Start(account, id, body) ==
    /\ CanStart
    /\ \E db_ok \in BOOLEAN :
         LET req == RecreateRequest(account, id, body)
         IN  Enter(IF ~db_ok \/ id # class.id THEN Responded(req, "err")
                   ELSE [req EXCEPT !.webinar = Some(FoundWebinar(class)),
                                    !.pc = "authorize"])
    /\ UNCHANGED <<class, classes, recordings, commits, fin, fout>>

\* authorize is answered, then the first poll of the join of
\* create_event_and_conference: the two rooms are asked for with the audience,
\* the reserve and the tags of the row that find read
Recreate_Authorize(i) ==
    /\ run[i].op = "recreate"
    /\ run[i].pc = "authorize"
    /\ \E event_sent, conference_sent \in BOOLEAN :
         LET req == run[i]
             webinar == req.webinar[1]
             event == CreateEventRoomCall(<<Included(Now), <<"Unbounded">>>>,
                                          webinar.audience, Some(TRUE), webinar.tags)
             conference == CreateConferenceRoomCall(ConferenceTime(Some(RecreateTime(req.arg))),
                                                    webinar.audience, Some("shared"),
                                                    webinar.reserve, webinar.tags)
         IN  Do(i, IF ~Authorize(req.account, <<"classrooms", webinar.id>>, "update")
                   THEN Responded(req, "err")
                   ELSE IF ~event_sent
                   THEN Responded([req EXCEPT !.event_room = Failed], "err")
                   ELSE IF ~conference_sent
                   THEN Responded([req EXCEPT !.calls = <<event>>,
                                              !.event_room = Pending,
                                              !.conference_room = Failed], "err")
                   ELSE [req EXCEPT !.calls = <<event, conference>>,
                                    !.event_room = Pending,
                                    !.conference_room = Pending,
                                    !.pc = "join"])
    /\ UNCHANGED <<class, recordings, commits, fin, fout>>

\* the join of create_event_and_conference, then the query is built
RecreateJoined(req) ==
    IF Joined(req).pc = "insert"
    THEN [Joined(req) EXCEPT !.pc = "recreate_transaction"]
    ELSE Joined(req)

Recreate_EventResponse(i) ==
    /\ run[i].op = "recreate"
    /\ run[i].pc = "join"
    /\ run[i].event_room = Pending
    /\ \E res \in {Ready("event_room2"), Failed} :
         Do(i, RecreateJoined([run[i] EXCEPT !.event_room = res]))
    /\ UNCHANGED <<class, recordings, commits, fin, fout>>

Recreate_ConferenceResponse(i) ==
    /\ run[i].op = "recreate"
    /\ run[i].pc = "join"
    /\ run[i].conference_room = Pending
    /\ \E res \in {Ready("conference_room2"), Failed} :
         Do(i, RecreateJoined([run[i] EXCEPT !.conference_room = res]))
    /\ UNCHANGED <<class, recordings, commits, fin, fout>>

\* RecreateQuery: the class row after the UPDATE
RecreatedClass(row, time, event_room_id, conference_room_id) ==
    [row EXCEPT !.time = time, !.event_room_id = event_room_id,
                !.conference_room_id = conference_room_id,
                !.original_event_room_id = NULL, !.modified_event_room_id = NULL]

\* the statements of the transaction: get_conn, begin, RecreateQuery (the class
\* row is locked, its update pending), db::recording::DeleteQuery (the
\* recordings of the class locked, their deletion pending); a failure rolls
\* the transaction back
Recreate_Transaction(i) ==
    /\ run[i].op = "recreate"
    /\ run[i].pc = "recreate_transaction"
    /\ \E ok \in BOOLEAN :
        IF ~ok THEN Do(i, Responded(run[i], "err"))
        ELSE /\ ~ClassLockedByOther(i)
             /\ RowsLockedByOther(i) \cap RowsOfClass(run[i].id) = {}
             /\ Do(i, [run[i] EXCEPT
                         !.txn.class = Some(<<run[i].event_room.id,
                                              run[i].conference_room.id>>),
                         !.txn.locked = RowsOfClass(run[i].id),
                         !.pc = "recreate_commit"])
    /\ UNCHANGED <<class, recordings, commits, fin, fout>>

\* the rows of table whose index is not in deleted
RECURSIVE Remaining(_, _, _)
Remaining(table, deleted, k) ==
    IF k > Len(table) THEN <<>>
    ELSE (IF k \in deleted THEN <<>> ELSE <<table[k]>>) \o Remaining(table, deleted, k + 1)

\* a plausible slip: the DELETE run on the connection, outside the transaction
Recreate_CommitDeleteAutocommit(i) ==
    /\ run[i].op = "recreate"
    /\ run[i].pc = "recreate_commit"
    /\ \E ok \in BOOLEAN :
        /\ recordings' = Remaining(recordings, run[i].txn.locked, 1)
        /\ IF ok
           THEN /\ class' = RecreatedClass(class, RecreateTime(run[i].arg),
                                           run[i].txn.class[1][1], run[i].txn.class[1][2])
                /\ Do(i, Responded([run[i] EXCEPT !.txn = NoTxn, !.committed = TRUE], "ok"))
           ELSE /\ class' = class
                /\ Do(i, Responded([run[i] EXCEPT !.txn = NoTxn], "err"))
    /\ UNCHANGED <<commits, fin, fout>>

\* txn.commit(): the new class row and the deletion become visible together;
\* then the response
Recreate_Commit(i) ==
    /\ run[i].op = "recreate"
    /\ run[i].pc = "recreate_commit"
    /\ \E ok \in BOOLEAN :
        IF ok
        THEN /\ class' = RecreatedClass(class, RecreateTime(run[i].arg),
                                        run[i].txn.class[1][1], run[i].txn.class[1][2])
             /\ recordings' = Remaining(recordings, run[i].txn.locked, 1)
             /\ Do(i, Responded([run[i] EXCEPT !.txn = NoTxn, !.committed = TRUE], "ok"))
        ELSE /\ UNCHANGED <<class, recordings>>
             /\ Do(i, Responded([run[i] EXCEPT !.txn = NoTxn], "err"))
    /\ UNCHANGED <<commits, fin, fout>>

\* the triggers of the pipeline that arrive while sessions are recreated
RecreateUploads == {<<Rtc1, Rtc2>>}
RecreateAdjustResults == {res \in AdjustResults : res.kind = "Success" /\ res.original_room_id = "orig1"}
RecreateCompletionResults ==
    {res \in CompletionResults :
        /\ res.kind = "Success"
        /\ res.template = "TranscodeMinigroupToHls"
        /\ res.recording_duration = <<"3", "0", "0", "0", ".", "0">>}

NextRecreate ==
    \/ \E rtcs \in RecreateUploads : HandleUpload_Start(rtcs)
    \/ \E i \in Running : InsertRecordings_Commit(i)
    \/ \E i \in Running : CallAdjust(i)
    \/ \E res \in RecreateAdjustResults : HandleAdjust_Start(res)
    \/ \E i \in Running : HandleAdjust_Transaction(i)
    \/ \E i \in Running : HandleAdjust_Commit(i)
    \/ \E i \in Running : HandleAdjust_BuildTask(i)
    \/ \E i \in Running : HandleAdjust_ListEvents(i)
    \/ \E i \in Running : HandleAdjust_CreateTask(i)
    \/ \E res \in RecreateCompletionResults : HandleTranscodingCompletion_Start(res)
    \/ \E i \in Running : HandleTranscodingCompletion_Update(i)
    \/ \E i \in Running : HandleTranscodingCompletion_Publish(i)
    \/ \E account \in Accounts, id \in RequestedIds, body \in RecreateBodies :
         Recreate_Start(account, id, body)
    \/ \E i \in Running : Recreate_Authorize(i)
    \/ \E i \in Running : Recreate_EventResponse(i)
    \/ \E i \in Running : Recreate_ConferenceResponse(i)
    \/ \E i \in Running : Recreate_Transaction(i)
    \/ \E i \in Running : Recreate_Commit(i)
    \/ started < MaxInv /\ \E time \in {None} \cup {Some(t) : t \in UpdateTimes},
                            reserve \in {None} \cup {Some(r) : r \in UpdateReserves} :
         TimeUpdateQuery_execute(0, time, reserve)
    \/ started < MaxInv /\ \E time \in UpdateTimes :
         MinigroupTimeUpdateQuery_execute(0, time)
    \/ started < MaxInv /\ \E now \in CloseTimes : RoomCloseQuery_execute(0, now)

RecreateSpec == InitRecreate /\ [][NextRecreate]_vars

\* --------------------------------------------------------------- properties
\* the invocations whose record the state holds: the running ones and the one
\* that returned last
Invocations == {run[i] : i \in Running} \cup {last}

\* an invocation entered in this step and returned in it
EnteredAndReturned == started' # started /\ run' = run

\* the row of table recording that track rtc is persisted as
IsRowOf(row, rtc) ==
    /\ row.class_id = class.id
    /\ row.rtc_id = rtc.id
    /\ row.stream_uri = rtc.uri
    /\ row.started_at = rtc.started_at
    /\ row.segments = rtc.segments
    /\ row.created_by = rtc.created_by

\* C1: handle_adjust with an Error result returns a failure at once, never
\* enters the transaction, leaves the class row and every recording row as
\* they were, and issues no read_room, list_events or create_task call.
C1_ErrorAdjustStep ==
    /\ \A i \in 1..Len(run') :
         ~(run'[i].op = "handle_adjust" /\ run'[i].arg.kind = "Error")
    /\ (/\ EnteredAndReturned
        /\ last'.op = "handle_adjust"
        /\ last'.arg.kind = "Error")
       => /\ last'.ret = "err"
          /\ last'.calls = <<>>
          /\ issued' = issued
          /\ class' = class
          /\ recordings' = recordings
C1_ErrorAdjustChangesNothing == [][C1_ErrorAdjustStep]_vars

\* a failed adjustment reported for a class whose tracks were uploaded
C1_Witness ==
    /\ last.op = "handle_adjust"
    /\ last.arg.kind = "Error"
    /\ last.ret = "err"
    /\ Len(recordings) > 0
    /\ Issued("adjust_room")

\* C2: a ready event is published only after a transcoding task was created,
\* and a task is created only after an upload persisted recordings and issued
\* the adjust_room call, whatever the order of the incoming notices.
C2_StagesSequential ==
    /\ (last.op = "handle_transcoding_completion" /\ last.ret = "ok")
       => Issued("create_task")
    /\ Issued("create_task")
       => /\ Issued("adjust_room")
          /\ \E rtcs \in UploadInputs : commits[rtcs] > 0

\* the writes of a stage, as the table shows them
UploadVisible(inv) ==
    \A k \in 1..Len(inv.arg) :
        \E m \in 1..Len(recordings) : IsRowOf(recordings[m], inv.arg[k])
AdjustVisible(inv) ==
    /\ class.original_event_room_id # NULL
    /\ class.modified_event_room_id # NULL
    /\ inv.fetched # None
    /\ \A k \in 1..Len(inv.fetched[1]) :
         \E m \in 1..Len(recordings) :
            /\ recordings[m].rtc_id = inv.fetched[1][k].rtc_id
            /\ recordings[m].adjusted_at # NULL
            /\ recordings[m].modified_segments # None

\* C3: whenever handle_upload has issued adjust_room its insert transaction
\* is committed and its rows are visible, and whenever handle_adjust has issued
\* read_room, list_events or create_task its transaction is committed and the
\* room ids and the adjusted recordings are visible.
C3_CommitBeforeCall ==
    \A inv \in Invocations :
        /\ (inv.op = "handle_upload" /\ inv.calls # <<>>)
           => inv.committed /\ UploadVisible(inv)
        /\ (inv.op = "handle_adjust" /\ inv.calls # <<>>)
           => inv.committed /\ AdjustVisible(inv)

\* an upload that issued adjust_room was followed by an adjustment that
\* created its task
C3_Witness ==
    /\ last.op = "handle_adjust"
    /\ CallsOf(last, "create_task") # <<>>
    /\ Issued("adjust_room")

\* invocation i commits its transaction in this step
UploadCommits(i) ==
    /\ run[i].op = "handle_upload"
    /\ run[i].pc = "insert_commit"
    /\ Len(run') = Len(run)
    /\ run'[i].pc = "call_adjust"
AdjustCommits(i) ==
    /\ run[i].op = "handle_adjust"
    /\ run[i].pc = "adjust_commit"
    /\ Len(run') = Len(run)
    /\ run'[i].pc = "adjust_build_task"

\* C4: the rows of table recording appear only at the commit of an upload's
\* transaction, all at once: exactly one row per track of the notice, in the
\* notice's order, each with the track's id, uri, started_at, segments and
\* creator; and an upload that returned success has committed its rows.
C4_UploadStep ==
    /\ Len(recordings') # Len(recordings)
       => \E i \in 1..Len(run) :
            /\ UploadCommits(i)
            /\ run[i].arg # <<>>
            /\ Len(recordings') = Len(recordings) + Len(run[i].arg)
            /\ \A k \in 1..Len(recordings) : recordings'[k] = recordings[k]
            /\ \A k \in 1..Len(run[i].arg) :
                 IsRowOf(recordings'[Len(recordings) + k], run[i].arg[k])
    /\ (last'.op = "handle_upload" /\ last'.ret = "ok")
       => /\ last'.committed
          /\ \A k \in 1..Len(last'.arg) :
               \E m \in 1..Len(recordings') : IsRowOf(recordings'[m], last'.arg[k])
C4_OneRowPerTrackAtomically == [][C4_UploadStep]_vars

\* a successful upload of two tracks, their two rows in the table
C4_Witness ==
    /\ last.op = "handle_upload"
    /\ last.ret = "ok"
    /\ Len(last.arg) = 2
    /\ Len(recordings) = 2

MinOf(S) == CHOOSE x \in S : \A y \in S : x <= y
MaxOf(S) == CHOOSE x \in S : \A y \in S : x >= y

\* the envelope of the segments of the tracks: from the least start to the
\* greatest stop
Envelope(rtcs) ==
    LET segs == UNION {{rtcs[k].segments[m] : m \in 1..Len(rtcs[k].segments)} :
                       k \in 1..Len(rtcs)}
    IN  <<Seg(MinOf({sg[1][2] : sg \in segs}), MaxOf({sg[2][2] : sg \in segs}))>>

\* C5: a successful handle_upload has issued exactly one call, adjust_room,
\* with the event room id of the class, the least started_at of the uploaded
\* tracks, the one-segment envelope of their segments and the offset 4018.
C5_OneAdjustRoomCall ==
    (last.op = "handle_upload" /\ last.ret = "ok")
    => /\ Len(last.calls) = 1
       /\ last.calls[1].method = "adjust_room"
       /\ last.calls[1].room_id = class.event_room_id
       /\ last.calls[1].started_at =
            MinOf({last.arg[k].started_at : k \in 1..Len(last.arg)})
       /\ last.calls[1].segments = Envelope(last.arg)
       /\ last.calls[1].offset = 4018

\* a successful upload whose earliest track is not its first one
C5_Witness ==
    /\ last.op = "handle_upload"
    /\ last.ret = "ok"
    /\ last.arg = <<Rtc2, Rtc3>>
    /\ last.calls[1].started_at = 300

\* C6: handle_upload with an empty track list returns a failure at once,
\* inserts no row and issues no call.
C6_EmptyUploadStep ==
    /\ \A i \in 1..Len(run') :
         ~(run'[i].op = "handle_upload" /\ run'[i].arg = <<>>)
    /\ (/\ EnteredAndReturned
        /\ last'.op = "handle_upload"
        /\ last'.arg = <<>>)
       => /\ last'.ret = "err"
          /\ last'.calls = <<>>
          /\ issued' = issued
          /\ recordings' = recordings
C6_EmptyUploadFails == [][C6_EmptyUploadStep]_vars

\* an empty notice refused after recordings of the class were persisted
C6_Witness ==
    /\ last.op = "handle_upload"
    /\ last.arg = <<>>
    /\ last.ret = "err"
    /\ Len(recordings) > 0

RECURSIVE SumOver(_, _)
SumOver(f, S) ==
    IF S = {} THEN 0
    ELSE LET x == CHOOSE y \in S : TRUE IN f[x] + SumOver(f, S \ {x})

RowsOfTrack(id) == {m \in 1..Len(recordings) : recordings[m].rtc_id = id}
Occurrences(id, rtcs) == Cardinality({k \in 1..Len(rtcs) : rtcs[k].id = id})

\* C7: uploads are not deduplicated: the table holds, for every track, one
\* row per committed upload of a notice naming it, so n committed uploads of
\* the same k tracks leave n*k rows.
C7_NoDeduplication ==
    /\ Len(recordings) =
         SumOver([rtcs \in UploadInputs |-> commits[rtcs] * Len(rtcs)], UploadInputs)
    /\ \A id \in {"rtc1", "rtc2", "rtc3"} :
         Cardinality(RowsOfTrack(id)) =
           SumOver([rtcs \in UploadInputs |-> commits[rtcs] * Occurrences(id, rtcs)],
                   UploadInputs)

\* the same two tracks uploaded twice: four rows, two per track
C7_Witness ==
    /\ commits[<<Rtc1, Rtc2>>] = 2
    /\ Len(recordings) = 4
    /\ Cardinality(RowsOfTrack("rtc1")) = 2

RoomIds(c) == <<c.original_event_room_id, c.modified_event_room_id>>
AdjustFields(row) == <<row.adjusted_at, row.modified_segments>>

\* C8: the room ids of the class and the adjusted_at / modified_segments of
\* the recordings change only at the commit of a handle_adjust transaction,
\* and there all together: the class gets the two room ids of the notice and
\* every recording the UPDATE covered (all recordings the class had when the
\* statement ran) is marked adjusted with its modified segments populated.
C8_AdjustStep ==
    /\ \A i \in 1..Len(run) :
         AdjustCommits(i)
         => /\ run[i].arg.kind = "Success"
            /\ RoomIds(class') = <<run[i].arg.original_room_id,
                                   run[i].arg.modified_room_id>>
            /\ Len(recordings') = Len(recordings)
            /\ \A k \in run[i].txn.locked :
                 /\ recordings'[k].adjusted_at # NULL
                 /\ recordings'[k].modified_segments # None
    /\ (~\E i \in 1..Len(run) : AdjustCommits(i))
       => /\ RoomIds(class') = RoomIds(class)
          /\ \A k \in 1..Len(recordings) :
               AdjustFields(recordings'[k]) = AdjustFields(recordings[k])
    /\ \A i \in 1..Len(run) :
         (/\ run[i].pc = "adjust_transaction"
          /\ Len(run') = Len(run)
          /\ run'[i].pc = "adjust_commit")
         => run'[i].txn.locked = {k \in 1..Len(recordings) :
                                    recordings[k].class_id = class.id}
C8_AdjustWritesAtomically == [][C8_AdjustStep]_vars

\* an adjustment committed for a class with two recordings: the room ids
\* and both recordings' marks are visible
C8_Witness ==
    /\ \E inv \in Invocations : inv.op = "handle_adjust" /\ inv.committed
    /\ class.modified_event_room_id = "mod1"
    /\ class.original_event_room_id = "orig1"
    /\ Len(recordings) = 2
    /\ \A k \in 1..Len(recordings) :
         recordings[k].adjusted_at # NULL /\ recordings[k].modified_segments # None

\* C9: a successful handle_adjust has issued exactly one create_task call;
\* its task has one stream per recording fetched in the transaction, in their
\* order and with their track ids, and the host_stream_id: the track of the
\* first fetched recording made by the host of the class, if there is one.
C9_OneTaskWithAllStreams ==
    (last.op = "handle_adjust" /\ last.ret = "ok")
    => LET tasks == CallsOf(last, "create_task")
           fetched == last.fetched[1]
           byHost == {k \in 1..Len(fetched) :
                        Some(fetched[k].created_by.account_id) = class.host}
       IN  /\ Len(tasks) = 1
           /\ last.fetched # None
           /\ Len(fetched) > 0
           /\ Len(tasks[1].task.streams) = Len(fetched)
           /\ \A k \in 1..Len(fetched) :
                tasks[1].task.streams[k].id = fetched[k].rtc_id
           /\ tasks[1].task.host_stream_id =
                IF byHost = {} THEN None ELSE Some(fetched[MinOf(byHost)].rtc_id)

\* a task with the streams of two recordings, the host's among them
C9_Witness ==
    /\ last.op = "handle_adjust"
    /\ last.ret = "ok"
    /\ Len(last.fetched[1]) = 2
    /\ Len(CallsOf(last, "create_task")[1].task.streams) = 2
    /\ CallsOf(last, "create_task")[1].task.host_stream_id = Some("rtc1")

\* the reference pass over the first k pin events: the pin that is open after
\* them and the segments emitted so far
RECURSIVE ReferencePass(_, _, _, _)
ReferencePass(events, creator, offset, k) ==
    IF k = 0 THEN [open |-> None, emitted |-> <<>>]
    ELSE LET before == ReferencePass(events, creator, offset, k - 1)
             time == (events[k].occurred_at \div 1000000) - offset
         IN  IF before.open = None
             THEN IF events[k].data.agent_id = creator
                  THEN [open |-> Some(time), emitted |-> before.emitted]
                  ELSE before
             ELSE [open |-> None,
                   emitted |-> Append(before.emitted, Seg(before.open[1], time))]

\* the pin segments of the reference: the emitted ones, then the pin still
\* open at the end closed at the end of the recording
ReferencePinSegments(in) ==
    LET pass == ReferencePass(in.pin_events, in.recording.created_by,
                              in.event_room_offset, Len(in.pin_events))
        segments == in.recording.segments
    IN  IF pass.open # None /\ Len(segments) > 0
        THEN Append(pass.emitted,
                    Seg(pass.open[1], segments[Len(segments)][2][2]))
        ELSE pass.emitted

\* C10: for every list of pin events the pin segments build_stream returns
\* are those of the reference pass: an event of the recording's creator while
\* no pin is open opens one at its translated time, any event while a pin is
\* open emits [pin_start, translated time) and clears the pin, and an event of
\* another participant while no pin is open changes nothing.
C10_PinSegmentsAreTheReference ==
    fout # None => fout[1].pin_segments = ReferencePinSegments(fin[1])

\* the events (0, A), (1200, B), (1500, A) for A's recording that ends at 3000
C10_Witness ==
    /\ fout # None
    /\ fin[1].pin_events = TestPinEvents
    /\ fin[1].recording.created_by = Agent1
    /\ fin[1].recording.segments = Segments1
    /\ fin[1].event_room_offset = 0
    /\ fout[1].pin_segments = <<Seg(0, 1200), Seg(1500, 3000)>>

\* the time of a pin event in the dimension of the recording
Translated(event, offset) == (event.occurred_at \div 1000000) - offset

\* whether a pin of creator's recording is open after the first k events: an
\* event while one is open closes it, an event of the creator while none is
\* open opens one
RECURSIVE PinOpenAfter(_, _, _)
PinOpenAfter(events, creator, k) ==
    IF k = 0 THEN FALSE
    ELSE IF PinOpenAfter(events, creator, k - 1) THEN FALSE
    ELSE events[k].data.agent_id = creator

\* the events that close a pin
Closings(events, creator) ==
    {k \in 1..Len(events) : PinOpenAfter(events, creator, k - 1)}

\* C11: a pin still open after the last event (it is that event which opened
\* it) is closed at the stop of the recording's last segment, as the last pin
\* segment; when the recording has no segments it is dropped; and no segment
\* is added when no pin is open at the end.
C11_TrailingPinClosedAtRecordingEnd ==
    fout # None
    => LET events == fin[1].pin_events
           creator == fin[1].recording.created_by
           segments == fin[1].recording.segments
           out == fout[1].pin_segments
           closed == Cardinality(Closings(events, creator))
       IN  IF PinOpenAfter(events, creator, Len(events)) /\ Len(segments) > 0
           THEN /\ Len(out) = closed + 1
                /\ out[Len(out)] =
                     Seg(Translated(events[Len(events)], fin[1].event_room_offset),
                         segments[Len(segments)][2][2])
           ELSE Len(out) = closed

\* a pin left open by the last event, closed at the end of the recording
C11_Witness ==
    /\ fout # None
    /\ fin[1].pin_events = <<PinEvent(0, Agent2), PinEvent(1200000000, Agent1)>>
    /\ fin[1].recording.created_by = Agent1
    /\ fin[1].recording.segments = Segments1
    /\ fin[1].event_room_offset = 600
    /\ fout[1].pin_segments = <<Seg(600, 3000)>>

\* a pin left open for a recording without segments
C11_WitnessDropped ==
    /\ fout # None
    /\ fin[1].pin_events = <<PinEvent(0, Agent1)>>
    /\ fin[1].recording.created_by = Agent1
    /\ fin[1].recording.segments = <<>>
    /\ fout[1].pin_segments = <<>>

\* C12: over an empty list of pin events build_stream returns no pin
\* segment, whatever the recording and its segments.
C12_NoEventsNoPinSegments ==
    (fout # None /\ fin[1].pin_events = <<>>) => fout[1].pin_segments = <<>>

\* no events for a recording that has segments
C12_Witness ==
    /\ fout # None
    /\ fin[1].pin_events = <<>>
    /\ fin[1].recording.segments = Segments1
    /\ fout[1].pin_segments = <<>>

\* C13: when every event names the recording's creator the events pair up:
\* the second closes the pin the first opened and opens none, the third opens
\* the next one, and so on; an odd last event leaves the trailing pin.
C13_CreatorEventClosesOpenPin ==
    (fout # None /\ \A k \in 1..Len(fin[1].pin_events) :
                       fin[1].pin_events[k].data.agent_id = fin[1].recording.created_by)
    => LET events == fin[1].pin_events
           offset == fin[1].event_room_offset
           segments == fin[1].recording.segments
           n == Len(events)
           pairs == [j \in 1..(n \div 2) |->
                       Seg(Translated(events[2 * j - 1], offset),
                           Translated(events[2 * j], offset))]
       IN  fout[1].pin_segments =
             pairs \o (IF n % 2 = 1 /\ Len(segments) > 0
                       THEN <<Seg(Translated(events[n], offset),
                                  segments[Len(segments)][2][2])>>
                       ELSE <<>>)

\* three events of the creator: the second closes, the third opens anew
C13_Witness ==
    /\ fout # None
    /\ fin[1].pin_events = <<PinEvent(0, Agent1), PinEvent(1200000000, Agent1),
                             PinEvent(1500000000, Agent1)>>
    /\ fin[1].recording.created_by = Agent1
    /\ fin[1].recording.segments = Segments1
    /\ fin[1].event_room_offset = 0
    /\ fout[1].pin_segments = <<Seg(0, 1200), Seg(1500, 3000)>>

\* the pin events are in the order they occurred
Chronological(events) ==
    \A k \in 1..(Len(events) - 1) : events[k].occurred_at <= events[k + 1].occurred_at

\* C14: for pin events in chronological order every pin segment of a
\* recording has stop >= start, the trailing one included.
C14_StopNotBeforeStart ==
    (fout # None /\ Chronological(fin[1].pin_events))
    => \A k \in 1..Len(fout[1].pin_segments) :
         fout[1].pin_segments[k][2][2] >= fout[1].pin_segments[k][1][2]

\* C15: for pin events in chronological order each pin segment starts at or
\* after the stop of the one before it, and not before its start.
C15_PinSegmentsSortedDisjoint ==
    (fout # None /\ Chronological(fin[1].pin_events))
    => \A k \in 2..Len(fout[1].pin_segments) :
         /\ fout[1].pin_segments[k][1][2] >= fout[1].pin_segments[k - 1][2][2]
         /\ fout[1].pin_segments[k][1][2] >= fout[1].pin_segments[k - 1][1][2]

\* two pin segments out of three events in order
C15_Witness ==
    /\ fout # None
    /\ Chronological(fin[1].pin_events)
    /\ Len(fin[1].pin_events) = 3
    /\ Len(fout[1].pin_segments) = 2
    /\ fout[1].pin_segments[2][1][2] > fout[1].pin_segments[1][2][2]

\* C16: in the task's stream of a recording every pin segment starts at the
\* translated time of an event, (occurred_at div 1000000) - (started_at -
\* opened_at), the nanoseconds divided first, and stops at the translated time
\* of the next event (the trailing one at the end of the recording).
C16_TranslatedTime ==
    fout # None
    => \A k \in 1..Len(fin[1].recordings) :
         LET recording == fin[1].recordings[k]
             events == fin[1].pin_events
             offset == recording.started_at - fin[1].opened_at
             out == fout[1].streams[k].pin_segments
         IN  \A j \in 1..Len(out) :
               \E i \in 1..Len(events) :
                  /\ out[j][1] = Included((events[i].occurred_at \div 1000000) - offset)
                  /\ \/ /\ i < Len(events)
                        /\ out[j][2] =
                             Excluded((events[i + 1].occurred_at \div 1000000) - offset)
                     \/ /\ i = Len(events)
                        /\ j = Len(out)
                        /\ out[j][2] = recording.segments[Len(recording.segments)][2]

\* a recording started 600 ms after the room was opened: the events at 1200 ms
\* and 1500 ms map to 600 and 900
C16_Witness ==
    /\ fout # None
    /\ fin[1].opened_at = 0
    /\ fin[1].pin_events = TestPinEvents
    /\ fin[1].recordings[1].rtc_id = "rtc2"
    /\ fin[1].recordings[1].started_at = 600
    /\ fout[1].streams[1].pin_segments = <<Seg(600, 900)>>

\* an event 1 ms after the opening, before the recording started
C16_WitnessBeforeStart ==
    /\ fout # None
    /\ fin[1].opened_at = 0
    /\ fin[1].recordings[1].rtc_id = "rtc2"
    /\ fout[1].streams[1].pin_segments = <<Seg(-599, 600)>>

\* C19: in the task of a successful handle_adjust the stream of every
\* recording has the offset started_at minus the least started_at of the
\* fetched recordings, as an unsigned number that did not wrap: 0 for the
\* earliest recording and never negative for the others.
C19_OffsetsFromEarliest ==
    (last.op = "handle_adjust" /\ last.ret = "ok")
    => LET streams == CallsOf(last, "create_task")[1].task.streams
           fetched == last.fetched[1]
           earliest == MinOf({fetched[k].started_at : k \in 1..Len(fetched)})
       IN  \A k \in 1..Len(fetched) :
             /\ streams[k].offset.wraps = 0
             /\ streams[k].offset.low = fetched[k].started_at - earliest
             /\ streams[k].offset.low >= 0
             /\ (fetched[k].started_at = earliest) => streams[k].offset.low = 0

\* a task for two recordings of which the second is the earliest
C19_Witness ==
    /\ last.op = "handle_adjust"
    /\ last.ret = "ok"
    /\ Len(last.fetched[1]) = 2
    /\ last.fetched[1][1].started_at = 600
    /\ last.fetched[1][2].started_at = 300
    /\ CallsOf(last, "create_task")[1].task.streams[1].offset.low = 300
    /\ CallsOf(last, "create_task")[1].task.streams[2].offset.low = 0

\* C20: host_stream_id is the track id of the first recording, in the order
\* they were fetched, whose creator's account is the host of the class; it is
\* None when the class has no host or the host created no recording.
C20_HostStreamId ==
    fout # None
    => LET recs == fin[1].recordings
           host == fin[1].host
           byHost == {k \in 1..Len(recs) : Some(recs[k].created_by.account_id) = host}
       IN  IF host = None \/ byHost = {}
           THEN fout[1].host_stream_id = None
           ELSE fout[1].host_stream_id = Some(recs[MinOf(byHost)].rtc_id)

\* the host made the second and the third recording: the second is taken
C20_Witness ==
    /\ fout # None
    /\ fin[1].host = Some("user1")
    /\ Len(fin[1].recordings) = 3
    /\ fin[1].recordings[1].rtc_id = "rtc2"
    /\ fin[1].recordings[2].rtc_id = "rtc3"
    /\ fin[1].recordings[3].rtc_id = "rtc1"
    /\ fout[1].host_stream_id = Some("rtc3")

\* a class without host, and a host who made no recording
C20_WitnessNoHost ==
    /\ fout # None
    /\ fin[1].host = None
    /\ fout[1].host_stream_id = None
C20_WitnessHostWithoutRecording ==
    /\ fout # None
    /\ fin[1].host = Some("host")
    /\ fout[1].host_stream_id = None

\* the tracks of a list that have segments
WithSegments(rtcs) == {k \in 1..Len(rtcs) : Len(rtcs[k].segments) > 0}

\* C17: when build_adjust_segments succeeds it returns the single segment
\* from the least start of the tracks' first segments to the greatest stop of
\* the tracks' last segments, the tracks without segments left out.
C17_EnvelopeOfFirstsAndLasts ==
    (fout # None /\ fout[1].ok)
    => LET rtcs == fin[1]
           with == WithSegments(rtcs)
       IN  fout[1].val =
             <<Seg(MinOf({rtcs[k].segments[1][1][2] : k \in with}),
                   MaxOf({rtcs[k].segments[Len(rtcs[k].segments)][2][2] : k \in with}))>>

\* the tracks [(0,1500),(1800,3000)] and [(0,2700)] give the envelope (0,3000)
C17_Witness ==
    /\ fout # None
    /\ fin[1] = <<Rtc1, Rtc2>>
    /\ fout[1].ok
    /\ fout[1].val = <<Seg(0, 3000)>>

\* a track without segments between two tracks that have some
C17_WitnessSkipped ==
    /\ fout # None
    /\ fin[1] = <<Rtc5, Rtc3, Rtc4>>
    /\ fout[1].val = <<Seg(0, 3300)>>

\* C18: build_adjust_segments fails exactly when no track of the list has a
\* segment (the empty list included) and succeeds when at least one has.
C18_FailsWithoutSegments ==
    fout # None => (fout[1].ok <=> WithSegments(fin[1]) # {})

\* the failures: the empty list, and tracks none of which has a segment
C18_Witness ==
    /\ fout # None
    /\ fin[1] = <<Rtc3, Rtc3>>
    /\ ~fout[1].ok
C18_WitnessEmptyList ==
    /\ fout # None
    /\ fin[1] = <<>>
    /\ ~fout[1].ok
\* one track with a segment is enough
C18_WitnessOneTrackWithSegments ==
    /\ fout # None
    /\ fin[1] = <<Rtc3, Rtc2, Rtc3>>
    /\ fout[1].ok

\* the read_room calls of an invocation whose answer handle_adjust rejects:
\* the call failed, or the room's opening bound is not Included
RejectedRooms(inv) ==
    {k \in 1..Len(inv.calls) :
        /\ inv.calls[k].method = "read_room"
        /\ (~inv.calls[k].ok \/ inv.calls[k].time[1][1] # "Included")}

\* C21: a handle_adjust whose read_room call failed, or returned a room whose
\* opening bound is Excluded or Unbounded, returns a failure and has issued
\* neither a list_events nor a create_task call.
C21_BadRoomFailsBeforeEvents ==
    \A inv \in Invocations :
        (inv.op = "handle_adjust" /\ RejectedRooms(inv) # {})
        => /\ inv.pc = "done"
           /\ inv.ret = "err"
           /\ Methods(inv.calls) = {"read_room"}
           /\ Len(inv.calls) = 1

\* a room that was read but whose opening bound is Excluded
C21_Witness ==
    /\ last.op = "handle_adjust"
    /\ last.committed
    /\ Len(last.calls) = 1
    /\ last.calls[1].method = "read_room"
    /\ last.calls[1].ok
    /\ last.calls[1].time[1][1] = "Excluded"
    /\ last.ret = "err"

\* a room with no opening bound at all
C21_WitnessUnbounded ==
    /\ last.op = "handle_adjust"
    /\ Len(last.calls) = 1
    /\ last.calls[1].ok
    /\ last.calls[1].time[1][1] = "Unbounded"
    /\ last.ret = "err"

\* the read of the room failed
C21_WitnessReadFailed ==
    /\ last.op = "handle_adjust"
    /\ Len(last.calls) = 1
    /\ last.calls[1].method = "read_room"
    /\ ~last.calls[1].ok
    /\ last.ret = "err"

HTC == "handle_transcoding_completion"

\* the string has a minus sign
Negative(chars) == Len(chars) > 0 /\ chars[1] = "-"

\* ten times the seconds value a decimal string denotes, cut after the first
\* digit of the fraction
Tenths(chars) ==
    LET digits == IF Negative(chars) THEN Tail(chars) ELSE chars
        dot == CHOOSE k \in 1..Len(digits) : digits[k] = "."
        tenths == 10 * Decimal(SubSeq(digits, 1, dot - 1)) + DigitVal(digits[dot + 1])
    IN  IF Negative(chars) THEN 0 - tenths ELSE tenths

\* n is the integer nearest to the seconds value of the string
NearestInteger(n, chars) ==
    /\ 2 * (10 * n - Tenths(chars)) <= 10
    /\ 2 * (Tenths(chars) - 10 * n) <= 10

\* the step in which a running completion handler's UPDATE of the recordings
\* succeeds
TranscodingUpdateStep(i) ==
    /\ run[i].op = HTC
    /\ run[i].pc = "transcoding_update"
    /\ Len(run') = Len(run)
    /\ run'[i].pc = "publish_ready"

\* the step in which a completion handler returns success
TranscodingSuccessStep ==
    /\ Len(run') < Len(run)
    /\ last'.op = HTC
    /\ last'.ret = "ok"

\* the update step marks every recording of the class, and a completion that
\* returns success has made the update and one call, the publication of
\* minigroup.ready for the class, whose duration satisfies duration_ok
C22_MarksAndPublishes(duration_ok) ==
    /\ \A i \in Running :
         TranscodingUpdateStep(i)
         => /\ Len(recordings') = Len(recordings)
            /\ \A k \in 1..Len(recordings) :
                 recordings[k].class_id = class.id
                 => /\ recordings'[k].transcoded_at # NULL
                    /\ recordings'[k].rtc_id = recordings[k].rtc_id
    /\ TranscodingSuccessStep
       => /\ \E i \in Running : run[i].pc = "publish_ready" /\ run[i].committed
          /\ last'.arg.kind = "Success"
          /\ last'.arg.template = "TranscodeMinigroupToHls"
          /\ Len(last'.calls) = 1
          /\ LET event == last'.calls[1]
             IN  /\ event.method = "publish"
                 /\ event.kind = "broadcast"
                 /\ event.label = "minigroup.ready"
                 /\ event.path = <<"audiences", class.audience, "events">>
                 /\ event.payload.id = class.id
                 /\ event.payload.scope = class.scope
                 /\ event.payload.tags = class.tags
                 /\ event.payload.status = "success"
                 /\ duration_ok

\* the published duration is the integer nearest to the duration string, a
\* decimal with a point
PublishedNearest ==
    /\ \E k \in 2..(Len(last'.arg.recording_duration) - 1) :
          last'.arg.recording_duration[k] = "."
    /\ Len(last'.calls[1].payload.recording_duration) < 10
    /\ NearestInteger(Decimal(last'.calls[1].payload.recording_duration),
                      last'.arg.recording_duration)
    /\ (last'.arg.recording_duration = <<"3", "0", "0", "0", ".", "0">>
        => last'.calls[1].payload.recording_duration = <<"3", "0", "0", "0">>)

\* C22 as stated: the published recording_duration is the duration string
\* parsed as seconds and rounded to the nearest integer, whatever the string.
C22_PublishesNearestInteger == [][C22_MarksAndPublishes(PublishedNearest)]_vars

\* the string spells nan, or inf, after an optional sign
Spells(chars, word) ==
    LET letters == IF Len(chars) > 0 /\ chars[1] \in Signs THEN Tail(chars) ELSE chars
    IN  [k \in 1..Len(letters) |-> Lower(letters[k])] = word

\* the string is digits with one point in it, not at either end
IsPointDecimal(chars) ==
    /\ \A k \in 1..Len(chars) : chars[k] \in Digits \cup {"."}
    /\ Cardinality({k \in 1..Len(chars) : chars[k] = "."}) = 1
    /\ Len(chars) >= 3
    /\ chars[1] # "."
    /\ chars[Len(chars)] # "."

\* the digits before the point, without leading zeros
WholeSeconds(chars) ==
    LET dot == CHOOSE k \in 1..Len(chars) : chars[k] = "."
    IN  StripZeros([k \in 1..(dot - 1) |-> DigitVal(chars[k])])

\* the decimal is 2^64 seconds or more: its whole part is above u64::MAX,
\* compared digit by digit
AtLeastTwoTo64(chars) ==
    LET whole == WholeSeconds(chars)
        max == [k \in 1..Len(U64_MAX) |-> DigitVal(U64_MAX[k])]
    IN  \/ Len(whole) > Len(max)
        \/ /\ Len(whole) = Len(max)
           /\ \E k \in 1..Len(max) : /\ whole[k] > max[k]
                                     /\ \A j \in 1..(k - 1) : whole[j] = max[j]

\* the decimal has one digit after the point and at most eight before it
IsShortDecimal(chars) ==
    /\ IsPointDecimal(chars)
    /\ chars[Len(chars) - 1] = "."
    /\ Len(chars) <= 10

\* a duration of tenths of a second rounded to seconds, a half going up
RoundedHalfUp(chars) == (Tenths(chars) + 5) \div 10

\* the published duration is the f64 nearest to the duration, rounded with
\* halves away from zero and converted to u64 with saturation: 0 for a
\* negative duration and for NaN, u64::MAX for an infinite one and for a
\* finite one of 2^64 seconds or more, 3 for 2.5 - 10^-19, which is nearer to
\* the f64 2.5 than to any other, and for a decimal of one fraction digit the
\* nearest integer, the upper one at a half
PublishedSaturated ==
    LET duration == last'.arg.recording_duration
        published == last'.calls[1].payload.recording_duration
    IN  IF Negative(duration) \/ Spells(duration, <<"n", "a", "n">>)
        THEN published = <<"0">>
        ELSE IF Spells(duration, <<"i", "n", "f">>)
        THEN published = U64_MAX
        ELSE IF IsPointDecimal(duration) /\ AtLeastTwoTo64(duration)
        THEN published = U64_MAX
        ELSE IF duration = BelowHalfSeconds
        THEN published = <<"3">>
        ELSE /\ IsShortDecimal(duration)
             /\ Len(published) < 10
             /\ published # <<>>
             /\ published[1] = "0" => Len(published) = 1
             /\ Decimal(published) = RoundedHalfUp(duration)

C22_Step == C22_MarksAndPublishes(PublishedSaturated)

\* C22 (amended): handle_transcoding_completion with Success(duration) sets
\* transcoded_at on every recording of the class in one step, and returns
\* success only after that step and with exactly one call issued: the
\* publication of a broadcast minigroup.ready event on
\* audiences/<audience>/events with the class's id, scope and tags, status
\* "success" and recording_duration the f64 nearest to the duration string,
\* rounded to an integer with halves away from zero and converted to u64 with
\* saturation: "3000.0" gives 3000, "2.6" and "2.5" give 3, and so does
\* "2.4999999999999999999", whose nearest f64 is 2.5; a negative duration or
\* NaN gives 0; an infinite duration, or a finite one of 2^64 seconds or more
\* ("18446744073709551616.0"), gives 18446744073709551615.
C22_SuccessMarksAndPublishesOnce == [][C22_Step]_vars

\* a completion with the duration "inf" returned success and announced
\* u64::MAX seconds
C22_WitnessInfinite ==
    /\ last.op = HTC
    /\ last.ret = "ok"
    /\ last.arg.recording_duration = <<"i", "n", "f">>
    /\ last.calls[1].payload.recording_duration = U64_MAX

\* a completion with the duration 2^64 seconds, a finite one, returned success
\* and announced u64::MAX seconds
C22_WitnessTooLarge ==
    /\ last.op = HTC
    /\ last.ret = "ok"
    /\ last.arg.recording_duration = TwoTo64Seconds
    /\ last.calls[1].payload.recording_duration = U64_MAX

\* a completion with the duration "2.5" returned success and announced 3
\* seconds: the half went away from zero
C22_WitnessHalf ==
    /\ last.op = HTC
    /\ last.ret = "ok"
    /\ last.arg.recording_duration = <<"2", ".", "5">>
    /\ last.calls[1].payload.recording_duration = <<"3">>

\* a completion with the duration 2.5 - 10^-19 returned success and announced
\* 3 seconds: the f64 it parsed to is 2.5
C22_WitnessNearestFloat ==
    /\ last.op = HTC
    /\ last.ret = "ok"
    /\ last.arg.recording_duration = BelowHalfSeconds
    /\ last.calls[1].payload.recording_duration = <<"3">>

\* a completion with the duration "NaN" returned success and announced 0
C22_WitnessNaN ==
    /\ last.op = HTC
    /\ last.ret = "ok"
    /\ last.arg.recording_duration = <<"N", "a", "N">>
    /\ last.calls[1].payload.recording_duration = <<"0">>

\* a completion with the negative duration "-2.6" returned success, marked the
\* recordings and announced 0 seconds
C22_WitnessNegative ==
    /\ last.op = HTC
    /\ last.ret = "ok"
    /\ last.arg.recording_duration = <<"-", "2", ".", "6">>
    /\ last.calls[1].payload.recording_duration = <<"0">>
    /\ Len(recordings) > 0
    /\ \A k \in 1..Len(recordings) : recordings[k].transcoded_at # NULL

\* a completion with duration "2.6" returned success over two recordings, both
\* transcoded, and announced 3 seconds
C22_Witness ==
    /\ last.op = HTC
    /\ last.ret = "ok"
    /\ last.arg.recording_duration = <<"2", ".", "6">>
    /\ last.calls[1].payload.recording_duration = <<"3">>
    /\ Len(recordings) = 2
    /\ \A k \in 1..Len(recordings) : recordings[k].transcoded_at # NULL

\* the duration of the repository's test
C22_WitnessTest ==
    /\ last.op = HTC
    /\ last.ret = "ok"
    /\ last.arg.recording_duration = <<"3", "0", "0", "0", ".", "0">>
    /\ last.calls[1].payload.recording_duration = <<"3", "0", "0", "0">>
    /\ Len(recordings) > 0
    /\ \A k \in 1..Len(recordings) : recordings[k].transcoded_at # NULL

\* the invocation that entered in this step (when started' # started)
Entered == IF run' = run THEN last' ELSE run'[Len(run')]

\* the string is a number for the parser: after an optional sign, digits with
\* at most one point, or nan, or inf
IsDecimalNumber(chars) ==
    LET digits == IF Len(chars) > 0 /\ chars[1] \in Signs THEN Tail(chars) ELSE chars
    IN  \/ /\ \A k \in 1..Len(digits) : digits[k] \in Digits \cup {"."}
           /\ \E k \in 1..Len(digits) : digits[k] \in Digits
           /\ Cardinality({k \in 1..Len(digits) : digits[k] = "."}) <= 1
        \/ Spells(chars, <<"n", "a", "n">>)
        \/ Spells(chars, <<"i", "n", "f">>)

\* a completion result that handle_transcoding_completion must refuse
RefusedCompletion(res) ==
    \/ res.kind = "Failure"
    \/ res.kind = "Success" /\ res.template # "TranscodeMinigroupToHls"
    \/ res.kind = "Success" /\ res.template = "TranscodeMinigroupToHls"
       /\ ~IsDecimalNumber(res.recording_duration)

C23_Step ==
    (started' # started /\ Entered.op = HTC /\ RefusedCompletion(Entered.arg))
    => /\ run' = run
       /\ last'.ret = "err"
       /\ last'.calls = <<>>
       /\ ~last'.committed
       /\ recordings' = recordings
       /\ class' = class
       /\ issued' = issued

\* C23: handle_transcoding_completion with a Failure, with a Success of a
\* template other than transcode-minigroup-to-hls, or with a duration string
\* that is not a number returns a failure at once: no recording is marked
\* transcoded and no event is published.
C23_RefusedCompletionChangesNothing == [][C23_Step]_vars

\* a duration that is not a number was refused while an untranscoded recording
\* was there to be marked
C23_Witness ==
    /\ last.op = HTC
    /\ last.arg.kind = "Success"
    /\ last.arg.template = "TranscodeMinigroupToHls"
    /\ ~IsDecimalNumber(last.arg.recording_duration)
    /\ last.ret = "err"
    /\ Len(recordings) > 0
    /\ \A k \in 1..Len(recordings) : recordings[k].transcoded_at = NULL

\* a Failure result was refused
C23_WitnessFailure ==
    /\ last.op = HTC
    /\ last.arg.kind = "Failure"
    /\ last.ret = "err"
    /\ Len(recordings) > 0

\* a Success of another template was refused
C23_WitnessOtherTemplate ==
    /\ last.op = HTC
    /\ last.arg.kind = "Success"
    /\ last.arg.template = "TranscodeStreamToHls"
    /\ last.ret = "err"
    /\ Len(recordings) > 0

\* the upload, adjust and transcoding-completion handlers of MessageHandler
MessageHandlers == {"handle_upload", "handle_adjust", "handle_transcoding"}

\* C24: a handler in which a database query, an external call or the
\* publication of an event failed returns a failure; only the room.close stub
\* returns success whatever it is given.
C24_NoFailureSwallowed ==
    /\ (last.op \in MessageHandlers /\ last.failed # "none") => last.ret = "err"
    /\ last.op = "handle_close" => last.ret = "ok"

\* the webinar's task.complete handler marked the recordings transcoded, failed
\* to publish webinar.ready and returned success
C24_SwallowedPublishFailure ==
    /\ last.op = "handle_transcoding"
    /\ last.failed = "publish"
    /\ Len(last.calls) = 1
    /\ ~last.calls[1].ok
    /\ last.ret = "ok"
    /\ \E k \in 1..Len(recordings) : recordings[k].transcoded_at # NULL

\* the external call each stage ends with
FinalCall(op) ==
    CASE op = "handle_upload" -> "adjust_room"
      [] op = "handle_adjust" -> "create_task"
      [] op = HTC -> "publish"

\* C25: a handle_upload, handle_adjust or handle_transcoding_completion that
\* returned success has committed its database writes (the rows of the
\* uploaded tracks; the room ids of the class and the adjusted recordings;
\* the transcoded marks), and its last call is the stage's external call
\* (adjust_room, create_task, publish), issued once, and every call it issued
\* succeeded.
C25_SuccessMeansComplete ==
    (last.op \in {"handle_upload", "handle_adjust", HTC} /\ last.ret = "ok")
    => /\ last.committed
       /\ last.op = "handle_upload" => UploadVisible(last)
       /\ last.op = "handle_adjust" => AdjustVisible(last)
       /\ last.calls # <<>>
       /\ last.calls[Len(last.calls)].method = FinalCall(last.op)
       /\ Len(CallsOf(last, FinalCall(last.op))) = 1
       /\ \A k \in 1..Len(last.calls) : last.calls[k].ok
       /\ FinalCall(last.op) \in issued

\* all three stages ran for one class: the completion returned success with
\* the track adjusted and transcoded and the task created
C25_Witness ==
    /\ last.op = HTC
    /\ last.ret = "ok"
    /\ last.calls[1].ok
    /\ issued = {"adjust_room", "read_room", "list_events", "create_task", "publish"}
    /\ class.modified_event_room_id # NULL
    /\ Len(recordings) > 0
    /\ \A k \in 1..Len(recordings) :
         recordings[k].adjusted_at # NULL /\ recordings[k].transcoded_at # NULL

\* the room ids of the adjustment result res
ResultIds(res) == <<res.original_room_id, res.modified_room_id>>

\* the operations of a handle_adjust invocation that failed, as far as its
\* record shows them: a call that failed or a room that was rejected
FailedCalls(inv) ==
    {k \in 1..Len(inv.calls) : ~inv.calls[k].ok} \cup RejectedRooms(inv)

\* C30: with adjustment results handled concurrently, the class row always
\* holds the original and modified room ids of one and the same result, and
\* every handler that committed and whose calls all succeeded has returned
\* success with one create_task call of its own, made after reading its own
\* modified room.
C30_RoomIdsOfOneResult ==
    /\ \/ RoomIds(class) = <<NULL, NULL>>
       \/ \E res \in AdjustResults :
            res.kind = "Success" /\ RoomIds(class) = ResultIds(res)
    /\ (last.op = "handle_adjust" /\ last.arg.kind = "Success" /\ last.committed
        /\ Len(last.fetched[1]) > 0 /\ FailedCalls(last) = {})
       => /\ last.ret = "ok"
          /\ Len(CallsOf(last, "create_task")) = 1
          /\ CallsOf(last, "read_room")[1].id = last.arg.modified_room_id
          /\ CallsOf(last, "list_events")[1].room_id = last.arg.modified_room_id

\* two handlers of different results were in their transactions' wake at the
\* same time: one has committed the ids of its result and waits to build its
\* task while the other has returned success with its task, and the class row
\* holds the ids of the one that committed last
C30_Witness ==
    /\ last.op = "handle_adjust"
    /\ last.ret = "ok"
    /\ \E i \in Running :
         /\ run[i].op = "handle_adjust"
         /\ run[i].pc = "adjust_build_task"
         /\ run[i].arg # last.arg
         /\ RoomIds(class) \in {ResultIds(run[i].arg), ResultIds(last.arg)}
    /\ \E k \in 1..Len(recordings) : recordings[k].adjusted_at # NULL

\* one handler's transaction is open (its writes pending, the rows locked)
\* while the other enters
C30_WitnessTransactionsOverlap ==
    \E i, j \in Running :
        /\ i # j
        /\ run[i].op = "handle_adjust" /\ run[i].pc = "adjust_commit"
        /\ run[j].op = "handle_adjust" /\ run[j].pc = "adjust_transaction"
        /\ run[i].arg # run[j].arg

\* ------------------------------------------------------------ class creation
\* the do_create requests whose record the state holds
CreateRequests == {req \in Invocations : req.op = "do_create"}

CreateRoomMethods == {"event.create_room", "conference.create_room"}

\* the step inserts a class row: it is made by a request whose two create_room
\* calls both returned a room, and the row carries the two returned ids
InsertedByJoinedRequest ==
    \E i \in Running :
        /\ run[i].op = "do_create"
        /\ run[i].event_room.st = "ready"
        /\ run[i].conference_room.st = "ready"
        /\ Methods(run[i].calls) = CreateRoomMethods
        /\ Len(classes') = Len(classes) + 1
        /\ SubSeq(classes', 1, Len(classes)) = classes
        /\ classes'[Len(classes')].event_room_id = run[i].event_room.id
        /\ classes'[Len(classes')].conference_room_id = run[i].conference_room.id
        /\ run[i].event_room.id \in EventRoomIds
        /\ run[i].conference_room.id \in ConferenceRoomIds
        /\ run[i].inserted = None
        /\ Len(run') = Len(run)
        /\ run'[i].inserted = Some(Len(classes'))

\* a request one of whose create_room calls failed has failed, inserted no
\* row and made no call but the two create_room calls
FailedJoinFails(req) ==
    Failed \in {req.event_room, req.conference_room} =>
        /\ req.pc = "done"
        /\ req.ret = "err"
        /\ req.inserted = None
        /\ Methods(req.calls) \subseteq CreateRoomMethods

\* the step inserts a row of a minigroup
MinigroupInserted ==
    /\ Len(classes') > Len(classes)
    /\ classes'[Len(classes')].kind = "minigroup"

\* the room ids of the rows of the table are those they were inserted with
RoomsKept ==
    /\ Len(classes') >= Len(classes)
    /\ \A k \in 1..Len(classes) :
         /\ classes'[k].id = classes[k].id
         /\ classes'[k].event_room_id = classes[k].event_room_id
         /\ classes'[k].conference_room_id = classes[k].conference_room_id

C26_Step ==
    /\ MinigroupInserted => InsertedByJoinedRequest
    /\ RoomsKept
    /\ \A i \in 1..Len(run') : run'[i].op = "do_create" => FailedJoinFails(run'[i])
    /\ last'.op = "do_create" => FailedJoinFails(last')

\* C26: class creation issues the create-event-room and create-conference-room
\* calls together and joins them: when either call fails the creation fails,
\* no class row is inserted and no further call is made for the room the other
\* service created; the row of a minigroup is inserted only by a request whose
\* two calls both succeeded, it carries both returned room ids, and no later
\* write to the table changes them.
C26_RowOnlyAfterBothRooms == [][C26_Step]_vars

\* both calls of one request are in flight at the same time
C26_Witness ==
    \E i \in Running :
        /\ run[i].op = "do_create"
        /\ run[i].event_room = Pending
        /\ run[i].conference_room = Pending
        /\ Len(run[i].calls) = 2

\* the conference room was created, the event room failed: the creation failed
\* with no row and no call after the two create_room calls
C26_WitnessPartlyCreated ==
    /\ last.op = "do_create"
    /\ last.conference_room.st = "ready"
    /\ last.event_room = Failed
    /\ last.ret = "err"
    /\ classes = <<>>
    /\ Len(last.calls) = 2

\* a row was inserted with the two returned ids
C26_WitnessInserted ==
    /\ last.op = "do_create"
    /\ last.inserted = Some(1)
    /\ Len(classes) = 1
    /\ classes[1].event_room_id = "event_room3"
    /\ classes[1].conference_room_id = "conference_room2"

\* the request that entered in this step was made by an account that is not
\* allowed to create classrooms
UnauthorizedCreateEntered ==
    /\ started' # started
    /\ Entered.op = "do_create"
    /\ ~Authorize(Entered.account, <<"classrooms">>, "create")

C27_Step ==
    UnauthorizedCreateEntered =>
        /\ run' = run
        /\ last'.ret = "err"
        /\ last'.calls = <<>>
        /\ last'.inserted = None
        /\ issued' = issued
        /\ classes' = classes

\* C27: minigroup creation by an account that is not authorized to create
\* classrooms fails before any side effect: the request returns a failure at
\* once, with no create_room call to the event or conference service and no
\* class row inserted.
C27_UnauthorizedCreateHasNoEffect == [][C27_Step]_vars

\* an unauthorized creation was refused after an authorized one inserted a row
C27_Witness ==
    /\ last.op = "do_create"
    /\ ~Authorize(last.account, <<"classrooms">>, "create")
    /\ last.ret = "err"
    /\ last.calls = <<>>
    /\ Len(classes) = 1
    /\ issued = CreateRoomMethods \cup {"event.update_room", "conference.update_room"}

\* ------------------------------------------------------------ external calls
\* the calls of the event client whose record the state holds
ClientCalls == {c \in Invocations : c.op \in ClientMethods}

ClientErrors == {"AgentError", "PayloadError", "TimeoutError"}

\* C28 (as stated): every external call is bounded by the configured timeout and
\* ends in a result (the response or a distinct timeout failure), and is never
\* re-sent: every call that is awaited has a timer it has not outlived, every
\* call that ended has a result, and no call published its request twice.
C28_EveryCallBoundedByTimeout ==
    \A c \in ClientCalls :
        /\ Len(c.calls) <= 1
        /\ c.pc = "await" => fin.timeout # None /\ c.elapsed <= fin.timeout[1]
        /\ c.pc = "done" => c.ret \in {"Ok"} \cup ClientErrors

\* C28 (amended): a call of a client constructed with a timeout ends within it,
\* with the service's response or with TimeoutError, which it returns only
\* when the timer fired; a call of a client constructed without a timeout is
\* awaited with no bound and never returns TimeoutError; in both cases the
\* request is published at most once, also when the call failed or timed out.
C28_BoundedWhenTimeoutConfigured ==
    \A c \in ClientCalls :
        /\ Len(c.calls) <= 1
        /\ c.pc = "await" =>
             /\ Len(c.calls) = 1
             /\ fin.timeout # None => c.elapsed <= fin.timeout[1]
        /\ c.pc = "done" => c.ret \in {"Ok"} \cup ClientErrors
        /\ c.ret = "TimeoutError" =>
             /\ fin.timeout # None
             /\ c.elapsed = fin.timeout[1]
             /\ Len(c.calls) = 1
        /\ c.ret = "AgentError" => c.calls = <<>>

\* a call timed out when its timer fired, its request published once
C28_Witness ==
    /\ fin.timeout = Some(2)
    /\ last.op = "adjust_room"
    /\ last.ret = "TimeoutError"
    /\ last.elapsed = 2
    /\ Len(last.calls) = 1

\* a call of a client without a timeout waits longer than any timeout
C28_WitnessUnbounded ==
    /\ fin.timeout = None
    /\ \E i \in Running :
         /\ run[i].op = "read_room"
         /\ run[i].pc = "await"
         /\ \A dur \in Durations : run[i].elapsed > dur

\* -------------------------------------------------------- session recreation
\* the step removes no recording: every row of the table is still at its place
\* (its columns may have been updated)
RecordingsKept ==
    /\ Len(recordings') >= Len(recordings)
    /\ \A k \in 1..Len(recordings) :
         /\ recordings'[k].class_id = recordings[k].class_id
         /\ recordings'[k].rtc_id = recordings[k].rtc_id

\* the step leaves the room ids of the class row, which of all queries only
\* that of recreate writes (the time is written by the time updates and the
\* close of a room too)
SessionKept ==
    /\ class'.event_room_id = class.event_room_id
    /\ class'.conference_room_id = class.conference_room_id

\* an invocation returned in this step
ReturnedNow == Len(run') < Len(run) \/ EnteredAndReturned

\* the step is the commit of the transaction of recreate request i: the class
\* row gets the new time and room ids and no original and modified room, the
\* recordings the DELETE found are gone, and the request succeeds
RecreateCommitted(i) ==
    /\ run[i].op = "recreate"
    /\ run[i].pc = "recreate_commit"
    /\ run[i].event_room.st = "ready"
    /\ run[i].conference_room.st = "ready"
    /\ Len(run') < Len(run)
    /\ last'.op = "recreate"
    /\ last'.ret = "ok"
    /\ class' = [id |-> class.id, audience |-> class.audience, scope |-> class.scope,
                 tags |-> class.tags, host |-> class.host, reserve |-> class.reserve,
                 time |-> RecreateTime(run[i].arg),
                 event_room_id |-> run[i].event_room.id,
                 conference_room_id |-> run[i].conference_room.id,
                 original_event_room_id |-> NULL,
                 modified_event_room_id |-> NULL]
    /\ Len(recordings') = Len(recordings) - Cardinality(run[i].txn.locked)
    /\ recordings' = Remaining(recordings, run[i].txn.locked, 1)

\* the DELETE of a recreate transaction finds every recording of the class
DeleteFindsAll ==
    \A i \in 1..Len(run') :
        (/\ Len(run') = Len(run)
         /\ run'[i].op = "recreate"
         /\ run'[i].pc = "recreate_commit"
         /\ run[i].pc = "recreate_transaction")
        => run'[i].txn.locked = RowsOfClass(class.id)

C29_Step ==
    /\ ~(RecordingsKept /\ SessionKept) => \E i \in Running : RecreateCommitted(i)
    /\ DeleteFindsAll
    /\ (ReturnedNow /\ last'.op = "recreate" /\ last'.ret = "err") =>
           /\ class' = class
           /\ recordings' = recordings

\* C29: recordings of a class are removed only by session recreation: the
\* commit of recreate's transaction replaces the class's time and event and
\* conference room ids, sets the original and modified event-room ids to NULL
\* and deletes every recording of the class, all in one step; a recreate that
\* fails (room creation or the transaction) leaves the class row and the
\* recordings as they were; no step of handle_upload, handle_adjust or
\* handle_transcoding_completion removes a recording.
C29_RecordingsDeletedOnlyByRecreate == [][C29_Step]_vars

\* a session recreated after an upload and an adjustment: the recordings are
\* gone and the class has the new rooms and no original room
C29_Witness ==
    /\ last.op = "recreate"
    /\ last.ret = "ok"
    /\ commits[<<Rtc1, Rtc2>>] = 1
    /\ Issued("adjust_room")
    /\ recordings = <<>>
    /\ class.event_room_id = "event_room2"
    /\ class.conference_room_id = "conference_room2"
    /\ class.time = <<Included(60), Excluded(90)>>
    /\ class.original_event_room_id = NULL

\* the rooms were created and the transaction failed: the recordings and the
\* class row of the adjusted session are still there
C29_WitnessTransactionFailed ==
    /\ last.op = "recreate"
    /\ last.ret = "err"
    /\ last.event_room.st = "ready"
    /\ last.conference_room.st = "ready"
    /\ Len(recordings) = 2
    /\ class.event_room_id = "event_room1"
    /\ class.original_event_room_id = "orig1"

\* a recreate committed after an adjustment had set the original room
C29_WitnessResetsAdjustment ==
    /\ last.op = "recreate"
    /\ last.ret = "ok"
    /\ Issued("read_room")
    /\ class.original_event_room_id = NULL
    /\ class.modified_event_room_id = NULL

\* ------------------------------------------------ redelivery of adjust results
\* the invocation submitted a transcoding task
HasTask(inv) == inv.op = "handle_adjust" /\ Len(CallsOf(inv, "create_task")) > 0

\* the task it submitted and the class it submitted it for
SubmittedTask(inv) ==
    LET call == CallsOf(inv, "create_task")[1]
    IN  [class_id |-> call.class_id, task |-> call.task]

\* two invocations of handle_adjust were given the same result and saw the same
\* recordings, the same room opening time and the same pin events
SameAdjustInputs(a, b) ==
    /\ a.arg = b.arg
    /\ a.fetched = b.fetched
    /\ CallsOf(a, "read_room")[1].time = CallsOf(b, "read_room")[1].time
    /\ CallsOf(a, "list_events")[1].events = CallsOf(b, "list_events")[1].events

C31_Step ==
    /\ \A i \in Running :
         (/\ AdjustCommits(i)
          /\ class.original_event_room_id = run[i].arg.original_room_id
          /\ class.modified_event_room_id = run[i].arg.modified_room_id)
         => class' = class
    /\ (/\ Len(run') < Len(run)
        /\ HasTask(last')
        /\ HasTask(last)
        /\ SameAdjustInputs(last, last'))
       => SubmittedTask(last') = SubmittedTask(last)

ErrorLines(n) ==
    {k \in 1..Len(fout) : /\ fout[k].msg = n
                          /\ fout[k].by = "handle_event"
                          /\ fout[k].level = "error"}

\* C33: handle_event runs the handler of the label once per message, logs a
\* failure the handler returns, and completes: no message has two entries in
\* the history of handler calls, a message whose handler returned a failure
\* has exactly one error line of handle_event in the log and any other
\* message none, no call of the last handler to return is issued twice, and
\* a failure does not stop the next message from being handled.
C33_HandledOnce ==
    /\ Len(fin) <= started
    /\ \A j, k \in 1..Len(fin) : fin[j].msg = fin[k].msg => j = k
    /\ \A k \in 1..Len(fin) :
        Cardinality(ErrorLines(fin[k].msg)) = IF fin[k].ret = "err" THEN 1 ELSE 0
    /\ \A n \in 1..started :
        (\A k \in 1..Len(fin) : fin[k].msg # n) => ErrorLines(n) = {}
    /\ \A j, k \in 1..Len(last.calls) :
        last.calls[j] = last.calls[k] => j = k

\* the handler of the first message failed after its external call, the
\* failure was logged once, and the next message was handled to its end with a
\* call of its own
C33_Witness ==
    /\ Len(fin) >= 2
    /\ fin[1].ret = "err"
    /\ Cardinality(ErrorLines(1)) = 1
    /\ fin[2].ret = "ok"
    /\ last.op # "none"
    /\ last.msg = fin[2].msg
    /\ Len(last.calls) > 0

\* C34: an incoming event labelled room.close, or with an unknown or missing
\* label, changes no Class or Recording row, issues no external call,
\* publishes nothing, and is reported as success (no failure is logged).
C34_Step ==
    (/\ started' = started + 1
     /\ last'.op \in {"handle_close", "unexpected"}
     /\ last'.msg = started')
    => /\ class' = class
       /\ classes' = classes
       /\ recordings' = recordings
       /\ commits' = commits
       /\ issued' = issued
       /\ run' = run
       /\ last'.calls = <<>>
       /\ last'.ret = "ok"
       /\ \A k \in 1..Len(fout') :
            fout'[k].msg = started' => fout'[k].level # "error"

C34_NoEffect == [][C34_Step]_vars

\* a room.close notice and then a notice without a label were handled after
\* an upload notice that inserted a recording
C34_Witness ==
    /\ started = 3
    /\ Len(recordings) > 0
    /\ \E k \in 1..Len(fin) : fin[k] = [msg |-> 2, handler |-> "handle_close",
                                        ret |-> "ok"]
    /\ last.op = "unexpected"
    /\ last.msg = 3
    /\ last.arg = None
    /\ fout[Len(fout)] = LogLine(3, "handle_event", "debug")

\* C35: every stream binding of a submitted task carries the original
\* recorded segments, the track id and the storage uri of its recording
\* unchanged, and the k-th stream is built from the k-th recording the adjust
\* transaction returned.
C35_StreamsMirrorRecordings ==
    \A inv \in Invocations :
        HasTask(inv) =>
            LET recs == inv.fetched[1]
                streams == SubmittedTask(inv).task.streams
            IN  /\ inv.fetched # None
                /\ Len(streams) = Len(recs)
                /\ \A k \in 1..Len(recs) :
                    /\ streams[k].id = recs[k].rtc_id
                    /\ streams[k].uri = recs[k].stream_uri
                    /\ streams[k].segments = recs[k].segments

\* a task was submitted for two recordings of different tracks, the first of
\* them with recorded segments and with modified_segments written
C35_Witness ==
    /\ HasTask(last)
    /\ Len(last.fetched[1]) >= 2
    /\ last.fetched[1][1].rtc_id # last.fetched[1][2].rtc_id
    /\ Len(last.fetched[1][1].segments) > 0
    /\ last.fetched[1][1].modified_segments # None
    /\ SubmittedTask(last).task.streams[2].id = last.fetched[1][2].rtc_id

\* C36: handle_adjust Success for a class without Recording rows fails with
\* the no-recordings error and creates no transcoding task, and it does so
\* after its transaction was committed: the step in which it fails changes no
\* row, and the class keeps the event-room ids that were written.
C36_Step ==
    (/\ Len(run') < Len(run)
     /\ last'.op = "handle_adjust"
     /\ last'.arg.kind = "Success"
     /\ last'.fetched = Some(<<>>))
    => /\ last'.committed
       /\ last'.ret = "err"
       /\ last'.calls = <<>>
       /\ class' = class
       /\ recordings' = recordings
       /\ class.original_event_room_id # NULL
       /\ class.modified_event_room_id # NULL

C36_NoRecordingsFailsAfterCommit == [][C36_Step]_vars

\* a Success result was handled for the class while it had no recording: the
\* handler failed without a call, and the class carries the ids of the result
C36_Witness ==
    /\ last.op = "handle_adjust"
    /\ last.arg.kind = "Success"
    /\ last.committed
    /\ last.fetched = Some(<<>>)
    /\ last.ret = "err"
    /\ last.calls = <<>>
    /\ Len(recordings) = 0
    /\ RoomIds(class) = ResultIds(last.arg)

\* the tracks of an upload notice are there and none of them has a segment
NoSegmentAtAll(rtcs) ==
    /\ Len(rtcs) > 0
    /\ \A k \in 1..Len(rtcs) : Len(rtcs[k].segments) = 0

\* C37: handle_upload computes the adjust envelope after the recording
\* inserts were committed: for tracks of which none has a segment, an
\* invocation whose inserts were committed fails without an adjust_room call,
\* and a row for every track of the notice is in the recordings table.
C37_EnvelopeFailsAfterInsert ==
    \A inv \in Invocations :
        (inv.op = "handle_upload" /\ NoSegmentAtAll(inv.arg) /\ inv.committed) =>
            /\ inv.calls = <<>>
            /\ inv.pc = "done" => inv.ret = "err"
            /\ \A k \in 1..Len(inv.arg) :
                 \E r \in 1..Len(recordings) : IsRowOf(recordings[r], inv.arg[k])

\* an upload of one track without segments has failed after its row was
\* committed, and no adjust_room call was ever issued
C37_Witness ==
    /\ last.op = "handle_upload"
    /\ NoSegmentAtAll(last.arg)
    /\ last.committed
    /\ last.ret = "err"
    /\ Len(recordings) > 0
    /\ ~Issued("adjust_room")

\* the step is the publication of the ready event by a completion handler,
\* which returns with it
ReadyPublication ==
    /\ Len(run') < Len(run)
    /\ last'.op = HTC
    /\ Len(CallsOf(last', "publish")) > 0

\* C38: handle_transcoding_completion publishes the ready event only after it
\* has marked the recordings of the class transcoded, and when that
\* publication fails the handler returns a failure while every recording
\* keeps its mark: the publication step changes no row, and the step before
\* it leaves every recording of the class marked.
C38_Step ==
    /\ ReadyPublication =>
        /\ last'.committed
        /\ recordings' = recordings
        /\ class' = class
        /\ last'.ret = (IF CallsOf(last', "publish")[1].ok THEN "ok" ELSE "err")
    /\ \A i \in 1..Len(run) :
        (/\ Len(run') = Len(run)
         /\ run[i].op = HTC
         /\ run[i].pc = "transcoding_update"
         /\ run'[i].pc = "publish_ready")
        => /\ run[i].calls = <<>>
           /\ \A k \in 1..Len(recordings') :
                recordings'[k].class_id = run[i].minigroup.id
                    => recordings'[k].transcoded_at # NULL

C38_MarkedBeforeReadyAndKept == [][C38_Step]_vars

\* the completion handler marked the recordings, its publication failed, it
\* returned a failure, and the recordings are still marked
C38_Witness ==
    /\ last.op = HTC
    /\ last.committed
    /\ Len(CallsOf(last, "publish")) = 1
    /\ ~CallsOf(last, "publish")[1].ok
    /\ last.ret = "err"
    /\ Len(recordings) > 0
    /\ \A k \in 1..Len(recordings) : recordings[k].transcoded_at # NULL

\* the notice is a Success result whose tags carry no string scope, or whose
\* scope matches no webinar
UnroutableAdjust(payload) ==
    /\ payload.json_ok
    /\ payload.kind = "Success"
    /\ \/ payload.tags = None
       \/ WebinarByScope(payload.tags[1]) = None

\* C39: in the legacy adjust handler a Success result without a string scope
\* in its tags, or whose scope matches no webinar, fails before any write:
\* while it runs it is never past the lookup of the webinar, holds no
\* transaction and has made no call, and the step in which it returns is a
\* failure (logged by handle_event) that leaves the class's room ids and the
\* recordings unchanged and creates no transcoding task.
C39_Step ==
    /\ \A i \in Running :
        (run[i].op = "handle_adjust" /\ UnroutableAdjust(run[i].arg)) =>
            /\ run[i].pc = "adjust_read_webinar"
            /\ run[i].txn = NoTxn
            /\ run[i].calls = <<>>
    /\ (/\ last' # last
        /\ last'.op = "handle_adjust"
        /\ UnroutableAdjust(last'.arg))
       => /\ last'.ret = "err"
          /\ last'.failed \in {"none", "get_conn", "read_webinar"}
          /\ last'.calls = <<>>
          /\ class' = class
          /\ recordings' = recordings
          /\ issued' = issued
          /\ \E k \in 1..Len(fout') :
                fout'[k] = LogLine(last'.msg, "handle_event", "error")

C39_UnroutableAdjustWritesNothing == [][C39_Step]_vars

\* a Success result for a scope no webinar has was handled while the webinar
\* had a recording: the lookup failed, the recording is not adjusted and the
\* class has no room ids
C39_Witness ==
    /\ last.op = "handle_adjust"
    /\ UnroutableAdjust(last.arg)
    /\ last.arg.tags = Some("nowhere")
    /\ last.failed = "read_webinar"
    /\ last.ret = "err"
    /\ Len(recordings) > 0
    /\ recordings[1].adjusted_at = NULL
    /\ RoomIds(class) = <<NULL, NULL>>

\* C40: a stale adjust Success result of the previous session, handled after
\* the class was recreated, does not repopulate the class: once recreate has
\* given the class its new event room, and as long as no recording was
\* uploaded for that room (so that every adjust_room call issued so far was
\* for a room of an earlier session), the class's original and modified
\* event-room ids are NULL.
C40_StaleResultIgnored ==
    (/\ class.event_room_id = "event_room2"
     /\ Len(recordings) = 0
     /\ Issued("adjust_room"))
    => RoomIds(class) = <<NULL, NULL>>

====
